---- MODULE Spec2Model ----
(***************************************************************************)
(* inbound-email: SMTP ingestion -> durable task queue -> webhook          *)
(* dispatcher.  The model follows server.js (kept in src/readme.md, lines  *)
(* 485-903), services/webhookService.js (sendToWebhook), the WebhookRouter *)
(* (src/unnamed/part_005) and the DurableQueue class (second half of       *)
(* src/services/localStorage.js).                                          *)
(*                                                                         *)
(* Time is abstracted: a timer records the delay it was armed with and     *)
(* fires at some later step.  A process crash may happen between any two   *)
(* steps; it clears the memory of the process and keeps the files.         *)
(* fs.writeFile(path, data) opens the target with O_TRUNC and then writes: *)
(* between the two the file exists and holds no complete JSON document.    *)
(*                                                                         *)
(* Several specifications share the module.  Spec is the delivery pipeline. *)
(* ConnectSpec is onConnect with the SlidingWindowRateLimiter (second half *)
(* of services/webhookService.js) and DataPolicySpec the policy checks of  *)
(* onData, both over services/emailSecurity.js.  RouterSpec is the         *)
(* WebhookRouter with the request sendToWebhook builds.  UploadSpec is     *)
(* uploadToS3 and StorageSpec the retry process of services/s3Service.js   *)
(* over the LocalStorage directory; VaultSpec is the encryption at rest of *)
(* LocalStorage, DurableSpec the documents DurableQueue writes and reads,  *)
(* and ProcSpec gracefulShutdown with the handlers of the process events.  *)
(* PoolSpec is the worker pool of webhookQueue with several Tasks and      *)
(* sessions at once.                                                       *)
(* Strings that the code takes apart (addresses, header values,            *)
(* conditions, file names) are sequences of characters.                    *)
(***************************************************************************)
EXTENDS Integers, Sequences, FiniteSets, TLC

VARIABLES
    phase,        \* "booting" | "replayed" | "listening"   (startServer)
    config,       \* the environment the running process was started with
    disk,         \* durable queue directory: task id -> content of {id}.json
    usedIds,      \* ids generated so far (Date.now() + 6 random bytes: never reused)
    pending,      \* webhookQueue: work items waiting for a worker (task ids, FIFO)
    workers,      \* webhookQueue: one record per worker slot
    timers,       \* armed deferred re-enqueue timers: sequence of [taskId, delay]
    sessions,     \* SMTP sessions in their DATA command
    lastReply,    \* the reply to DATA sent by the latest step (code 0: none sent)
    received,     \* the endpoints' logs: task id -> urls that answered 2xx to this process
    lastWritten,  \* history: task id -> the Task last written completely and not removed
    lastAck       \* the cb call made by the latest step: "none" | "cb()" | "cb(error)"
                  \*   | "cb(null, result)" | "cb(null, queuedForRetry)"

vars == << phase, config, disk, usedIds, pending, workers, timers, sessions,
           lastReply, received, lastWritten, lastAck >>

\* The connection and message policy of the SMTP surface, studied on its own.
VARIABLES
    smtpConfig,   \* the policy options the process was started with
    now,          \* Date.now()
    hitsByKey,    \* connectionRateLimiter.hitsByKey: key -> timestamps
    calls,        \* history: every isAllowed(key) call so far, as [key, at]
    lastConnect,  \* outcome of the onConnect call of this step, if any
    lastData      \* outcome of the policy checks of the onData call of this step, if any

policyVars == << smtpConfig, now, hitsByKey, calls, lastConnect, lastData >>

\* Routing and the webhook request, studied on their own.
VARIABLES
    routerConfig, \* the options the WebhookRouter and sendToWebhook were loaded with
    decision,     \* outcome of the latest webhookRouter.route(email), if any
    lastPost      \* the request of the axios.post of this step, if any

routerVars == << routerConfig, decision, lastPost >>

\* The attachment storage tier: uploadToS3, LocalStorage and the retry process.
VARIABLES
    isS3Configured, \* config.isS3Configured()
    localFiles,     \* the LOCAL_STORAGE_PATH directory: file name -> what the file holds
    retryQueue,     \* s3Service retryQueue (a Map, in insertion order): items [id, localPath]
    retryAttempts,  \* s3Service retryAttempts: item id -> attempts
    retryInterval,  \* s3Service retryInterval: 0 (null) or the handle of a setInterval timer
    intervals,      \* the setInterval timers that are active (handles)
    uploads,        \* the uploadToS3 calls made so far: call -> its position and outcome
    ticks,          \* the callbacks of the retry timers that have not returned yet
    scan,           \* the startup scan of s3Service.js: "listing" | "listed" | "done"
    parseCall,      \* the parseEmail call in progress, and what onData did with its result
    drained         \* history: file -> the uploads the retry process tried and completed

storageVars == << isS3Configured, localFiles, retryQueue, retryAttempts, retryInterval,
                  intervals, uploads, ticks, scan, parseCall, drained >>

\* LocalStorage.save and LocalStorage.read of one attachment, studied on their own.
VARIABLES
    vault           \* the key of the LocalStorage, the attachment saved, its two files,
                    \*   and the outcome of read(location)

\* The DurableQueue with the documents of its files, studied on its own.
VARIABLES
    durable         \* the queue directory (id -> JSON document), what create and update
                    \*   were given per id, the ids updated, the ids used, and the
                    \*   outcome of the last call

\* gracefulShutdown and the handlers of the process events, studied on their own.
VARIABLES
    proc            \* isShuttingDown, the SMTP listener, the timers of gracefulShutdown,
                    \*   webhookQueue.getStats().total, the exit of the process, and the
                    \*   latest process event

\* The worker pool of webhookQueue with several Tasks and sessions, studied on its own.
VARIABLES
    pool            \* the phase of startServer, the files of the queue directory, the
                    \*   ids used, the work items waiting, the worker invocations, the
                    \*   deferred re-enqueue timers, the sessions in DATA, and what the
                    \*   latest step replied and acknowledged

\* What the steps of one part of the program leave alone.
pipelineFrame == << policyVars, routerVars, storageVars, vault, durable, proc, pool >>
policyFrame == << vars, routerVars, storageVars, vault, durable, proc, pool >>
routerFrame == << vars, policyVars, storageVars, vault, durable, proc, pool >>
storageFrame == << vars, policyVars, routerVars, vault, durable, proc, pool >>
vaultFrame == << vars, policyVars, routerVars, storageVars, durable, proc, pool >>
durableFrame == << vars, policyVars, routerVars, storageVars, vault, proc, pool >>
procFrame == << vars, policyVars, routerVars, storageVars, vault, durable, pool >>
poolFrame == << vars, policyVars, routerVars, storageVars, vault, durable, proc >>

allVars == << vars, policyVars, routerVars, storageVars, vault, durable, proc, pool >>

----------------------------------------------------------------------------
(* Bounds of the model *)

MaxTasks == 1
MaxSessions == 1
MaxAttempts == 3

(* Configuration values *)
WEBHOOK_CONCURRENCY == 1
WEBHOOK_RETRY_DELAY_MS == 60000
MAX_QUEUE_SIZE == 1

(* Program constants *)
maxRetries == 3

TaskIds == 1..MaxTasks
SessionIds == 1..MaxSessions
Slots == 1..WEBHOOK_CONCURRENCY
Subjects == {<< "s", "1" >>, << "s", "2" >>}

----------------------------------------------------------------------------
(* Strings, as sequences of characters *)

LowerOf == [c \in {"A", "C", "D", "E", "F", "M", "P", "R", "S"} |->
               CASE c = "A" -> "a" [] c = "C" -> "c" [] c = "D" -> "d" [] c = "E" -> "e"
                 [] c = "F" -> "f" [] c = "M" -> "m" [] c = "P" -> "p" [] c = "R" -> "r"
                 [] c = "S" -> "s"]

toLowerCase(str) ==
    [i \in 1..Len(str) |-> IF str[i] \in DOMAIN LowerOf THEN LowerOf[str[i]] ELSE str[i]]

RECURSIVE trim(_)
trim(str) ==
    IF str = << >> THEN str
    ELSE IF Head(str) = " " THEN trim(Tail(str))
    ELSE IF str[Len(str)] = " " THEN trim(SubSeq(str, 1, Len(str) - 1))
    ELSE str

includes(str, searchString) ==
    \E i \in 0..(Len(str) - Len(searchString)) :
        SubSeq(str, i + 1, i + Len(searchString)) = searchString

RECURSIVE join(_, _)
join(array, separator) ==
    IF array = << >> THEN << >>
    ELSE IF Len(array) = 1 THEN array[1]
    ELSE array[1] \o separator \o join(Tail(array), separator)

----------------------------------------------------------------------------
(* Values *)

\* A field of a parsed email: missing, a string, or a list of strings.
Undefined == [kind |-> "undefined", value |-> << >>]
Str(str) == [kind |-> "string", value |-> str]
List(array) == [kind |-> "array", value |-> array]
AddressObject(text, value) == [kind |-> "object", text |-> text, value |-> value]

Null == [arr |-> FALSE, items |-> << >>]
Arr(s) == [arr |-> TRUE, items |-> s]

NoEmail == [subject |-> Undefined]
Emails == [subject : {Str(subject) : subject \in Subjects}]

\* The content of a task file between the open(O_TRUNC) and the end of the write.
Torn == [complete |-> FALSE, parsed |-> NoEmail, failedWebhooks |-> Null,
         attempts |-> 0, lastError |-> ""]

NewTask(parsed) == [complete |-> TRUE, parsed |-> parsed, failedWebhooks |-> Null,
                    attempts |-> 0, lastError |-> ""]

----------------------------------------------------------------------------
(* Configurations the process can be started with *)

RuleA == [name |-> "A", conditions |-> [subject |-> << "s", "1" >>], webhook |-> "https://a",
          priority |-> 1, stopProcessing |-> FALSE]
RuleB == [name |-> "B", conditions |-> [subject |-> << "s", "1" >>], webhook |-> "https://b",
          priority |-> 2, stopProcessing |-> FALSE]

CfgA == [WEBHOOK_RULES |-> << RuleA >>, WEBHOOK_URL |-> "",
         REQUIRE_TRUSTED_RELAY |-> FALSE, REQUIRED_AUTH_RESULTS |-> FALSE]
CfgAB == [WEBHOOK_RULES |-> << RuleB, RuleA >>, WEBHOOK_URL |-> "https://a",
          REQUIRE_TRUSTED_RELAY |-> TRUE, REQUIRED_AUTH_RESULTS |-> TRUE]

CfgB == [WEBHOOK_RULES |-> << RuleB >>, WEBHOOK_URL |-> "",
         REQUIRE_TRUSTED_RELAY |-> FALSE, REQUIRED_AUTH_RESULTS |-> FALSE]

Configs == {CfgA, CfgAB, CfgB}

----------------------------------------------------------------------------
(* WebhookRouter *)

\* rule.priority || 999: a rule without the field, or with priority 0, counts as 999.
PriorityOr999(rule) ==
    IF "priority" \notin DOMAIN rule THEN 999
    ELSE IF rule.priority = 0 THEN 999
    ELSE rule.priority

\* Array.prototype.sort with the comparator of parseRules (the sort is stable).
RECURSIVE InsertRule(_, _)
InsertRule(sorted, r) ==
    IF sorted = << >> THEN << r >>
    ELSE IF PriorityOr999(r) < PriorityOr999(Head(sorted))
         THEN << r >> \o sorted
         ELSE << Head(sorted) >> \o InsertRule(Tail(sorted), r)

RECURSIVE parseRules(_)
parseRules(rules) ==
    IF rules = << >> THEN << >>
    ELSE InsertRule(parseRules(SubSeq(rules, 1, Len(rules) - 1)), rules[Len(rules)])

\* String(value), as RegExp.prototype.test applies it to its argument.
StringOf(value) ==
    IF value.kind = "array" THEN join(value.value, << "," >>) ELSE value.value

SameChar(c, d, ignoreCase) ==
    IF ignoreCase THEN toLowerCase(<< c >>) = toLowerCase(<< d >>) ELSE c = d

\* A pattern is a sequence of atoms: "^" (first), "$" (last), ".", ".*" or a character.
RECURSIVE MatchHere(_, _, _)
MatchHere(pattern, text, ignoreCase) ==
    IF pattern = << >> THEN TRUE
    ELSE IF Head(pattern) = ".*"
    THEN \E k \in 0..Len(text) :
            MatchHere(Tail(pattern), SubSeq(text, k + 1, Len(text)), ignoreCase)
    ELSE IF pattern = << "$" >> THEN text = << >>
    ELSE IF text = << >> THEN FALSE
    ELSE /\ Head(pattern) = "." \/ SameChar(Head(pattern), Head(text), ignoreCase)
         /\ MatchHere(Tail(pattern), Tail(text), ignoreCase)

\* new RegExp(pattern, flags).test(text)
RegExpTest(pattern, ignoreCase, text) ==
    IF pattern # << >> /\ Head(pattern) = "^"
    THEN MatchHere(Tail(pattern), text, ignoreCase)
    ELSE \E k \in 0..Len(text) : MatchHere(pattern, SubSeq(text, k + 1, Len(text)), ignoreCase)

\* `^${condition.replace(/\*/g, '.*')}$`
WildcardPattern(condition) ==
    << "^" >> \o [i \in 1..Len(condition) |->
                    IF condition[i] = "*" THEN ".*" ELSE condition[i]] \o << "$" >>

\* condition.lastIndexOf('/'), counted from 1 (0: no slash)
LastSlash(condition) ==
    IF \E i \in DOMAIN condition : condition[i] = "/"
    THEN CHOOSE i \in DOMAIN condition :
            /\ condition[i] = "/"
            /\ \A j \in DOMAIN condition : condition[j] = "/" => j <= i
    ELSE 0

RegExpFlags == {"g", "i", "m", "s", "u", "y"}

RECURSIVE evaluateCondition(_, _)
evaluateCondition(condition, value) ==
    IF condition = << >> \/ value.kind = "undefined"
       \/ (value.kind = "string" /\ value.value = << >>)
    THEN FALSE
    ELSE IF \E i \in DOMAIN condition : condition[i] = "*"
    THEN RegExpTest(WildcardPattern(condition), TRUE, StringOf(value))
    ELSE IF Head(condition) = "/" /\ LastSlash(condition) > 1
    THEN LET lastSlash == LastSlash(condition)
             pattern == SubSeq(condition, 2, lastSlash - 1)
             flags == SubSeq(condition, lastSlash + 1, Len(condition))
         IN  IF \A i \in DOMAIN flags : flags[i] \in RegExpFlags
             THEN RegExpTest(pattern, \E i \in DOMAIN flags : flags[i] = "i",
                             StringOf(value))
             ELSE FALSE
    ELSE IF value.kind = "array"
    THEN \E i \in DOMAIN value.value : evaluateCondition(condition, Str(value.value[i]))
    ELSE toLowerCase(value.value) = toLowerCase(condition)

\* extractEmail: a missing field, a string, or an address object of the parser (its
\* text when it has one, else the addresses of its value list).
extractEmail(addressField) ==
    IF addressField.kind = "undefined" THEN Undefined
    ELSE IF addressField.kind = "string" THEN addressField
    ELSE IF addressField.text # << >> THEN Str(addressField.text)
    ELSE List([i \in DOMAIN addressField.value |-> addressField.value[i].address])

\* The value of the email that a condition on `field` is compared with.
EmailValue(email, field) ==
    IF field \in {"from", "to", "cc"} THEN extractEmail(email[field]) ELSE email[field]

evaluateRule(rule, email) ==
    \A field \in DOMAIN rule.conditions :
        evaluateCondition(rule.conditions[field], EmailValue(email, field))

RECURSIVE MatchRules(_, _)
MatchRules(rules, email) ==
    IF rules = << >> THEN << >>
    ELSE LET rule == Head(rules) IN
         IF evaluateRule(rule, email)
         THEN << [webhook |-> rule.webhook, ruleName |-> rule.name,
                  priority |-> PriorityOr999(rule)] >>
              \o (IF rule.stopProcessing THEN << >> ELSE MatchRules(Tail(rules), email))
         ELSE MatchRules(Tail(rules), email)

route(cfg, email) ==
    LET matchedWebhooks == MatchRules(parseRules(cfg.WEBHOOK_RULES), email) IN
    IF matchedWebhooks = << >> /\ cfg.WEBHOOK_URL # ""
    THEN << [webhook |-> cfg.WEBHOOK_URL, ruleName |-> "default", priority |-> 9999] >>
    ELSE matchedWebhooks

----------------------------------------------------------------------------
(* DurableQueue *)

\* get(id): readFile + JSON.parse
GetResult(id) ==
    IF id \notin DOMAIN disk THEN "ENOENT"
    ELSE IF ~disk[id].complete THEN "SyntaxError"
    ELSE "ok"

RECURSIVE SortedSeq(_)
SortedSeq(S) ==
    IF S = {} THEN << >>
    ELSE LET m == CHOOSE x \in S : \A y \in S : x <= y
         IN << m >> \o SortedSeq(S \ {m})

\* listIds(): every {id}.json of the directory, sorted
listIds == SortedSeq(DOMAIN disk)

Without(f, id) == [i \in DOMAIN f \ {id} |-> f[i]]

With(f, id, v) == [i \in DOMAIN f \cup {id} |-> IF i = id THEN v ELSE f[i]]

----------------------------------------------------------------------------
(* State after construction *)

IdleWorker == [pc |-> "idle", taskId |-> 0, queueItem |-> Torn, failedWebhooks |-> Null,
               retries |-> 0, matched |-> << >>, idx |-> 0, errors |-> << >>,
               lastErr |-> "", delay |-> 0, note |-> ""]

IdleSession == [pc |-> "idle", email |-> NoEmail, taskId |-> 0]

NoReply == [session |-> 0, code |-> 0, message |-> ""]
Reply(s, code, message) == [session |-> s, code |-> code, message |-> message]

Init ==
    /\ phase = "booting"
    /\ config \in Configs
    /\ disk = << >>
    /\ usedIds = {}
    /\ pending = << >>
    /\ workers = [w \in Slots |-> IdleWorker]
    /\ timers = << >>
    /\ sessions = [s \in SessionIds |-> IdleSession]
    /\ lastReply = NoReply
    /\ received = [id \in TaskIds |-> {}]
    /\ lastWritten = << >>
    /\ lastAck = "none"

\* A step that calls no cb and sends no SMTP reply.
Quiet == lastAck' = "none" /\ lastReply' = NoReply

----------------------------------------------------------------------------
(* startServer *)

replayDurableQueue ==
    /\ phase = "booting"
    /\ pending' = pending \o listIds
    /\ phase' = "replayed"
    /\ Quiet
    /\ UNCHANGED << config, disk, usedIds, workers, timers, sessions, received,
                    lastWritten >>

Listen ==
    /\ phase = "replayed"
    /\ phase' = "listening"
    /\ Quiet
    /\ UNCHANGED << config, disk, usedIds, pending, workers, timers, sessions,
                    received, lastWritten >>

----------------------------------------------------------------------------
(* smtpOptions.onData *)

getStatsTotal == Len(pending) + Cardinality({w \in Slots : workers[w].pc # "idle"})

\* callback(createSmtpError(message, code)): the DATA command of session s is refused.
Reject(s, code, message) ==
    /\ sessions' = [sessions EXCEPT ![s] = IdleSession]
    /\ lastReply' = Reply(s, code, message)

\* Faulty variant of OnData: the queue-full check is missing.
OnDataNoLimit(s) ==
    /\ phase = "listening"
    /\ sessions[s].pc = "idle"
    /\ sessions' = [sessions EXCEPT ![s].pc = "parsing"]
    /\ lastReply' = NoReply
    /\ lastAck' = "none"
    /\ UNCHANGED << phase, config, disk, usedIds, pending, workers, timers, received,
                    lastWritten >>

\* DATA received: queue-full check, then parseEmail(stream) is awaited.
OnData(s) ==
    /\ phase = "listening"
    /\ sessions[s].pc = "idle"
    /\ IF getStatsTotal >= MAX_QUEUE_SIZE
       THEN Reject(s, 451, "Server busy, please retry later")
       ELSE /\ sessions' = [sessions EXCEPT ![s].pc = "parsing"]
            /\ lastReply' = NoReply
    /\ lastAck' = "none"
    /\ UNCHANGED << phase, config, disk, usedIds, pending, workers, timers, received,
                    lastWritten >>

FreshId == CHOOSE i \in TaskIds \ usedIds : \A j \in TaskIds \ usedIds : i <= j

\* parseEmail settled: policy checks, then durableQueue.create opens the task file.
\* onConnect has admitted the peer, so under REQUIRE_TRUSTED_RELAY it is a trusted relay.
OnDataParsed(s) ==
    /\ sessions[s].pc = "parsing"
    /\ \E parseOk \in BOOLEAN, authOk \in BOOLEAN, fromTrustedRelay \in BOOLEAN,
          parsed \in Emails :
          /\ config.REQUIRE_TRUSTED_RELAY => fromTrustedRelay
          /\ IF ~parseOk
             THEN /\ Reject(s, 451, "Failed to parse email")
                  /\ UNCHANGED << disk, usedIds >>
             ELSE IF config.REQUIRE_TRUSTED_RELAY /\ ~fromTrustedRelay
             THEN /\ Reject(s, 550, "SMTP relay is not trusted")
                  /\ UNCHANGED << disk, usedIds >>
             ELSE IF config.REQUIRED_AUTH_RESULTS /\ (~fromTrustedRelay \/ ~authOk)
             THEN /\ Reject(s, 550, IF ~fromTrustedRelay
                                    THEN "Authentication results require a trusted relay"
                                    ELSE "Email failed authentication policy checks")
                  /\ UNCHANGED << disk, usedIds >>
             ELSE /\ usedIds # TaskIds
                  /\ usedIds' = usedIds \cup {FreshId}
                  /\ disk' = With(disk, FreshId, Torn)
                  /\ sessions' = [sessions EXCEPT ![s] =
                         [pc |-> "creating", email |-> parsed, taskId |-> FreshId]]
                  /\ lastReply' = NoReply
    /\ lastAck' = "none"
    /\ UNCHANGED << phase, config, pending, workers, timers, received, lastWritten >>

\* Faulty variant of OnDataCreated: push and callback() without awaiting create.
AckBeforeCreate(s) ==
    /\ sessions[s].pc = "creating"
    /\ pending' = Append(pending, sessions[s].taskId)
    /\ sessions' = [sessions EXCEPT ![s] = IdleSession]
    /\ lastReply' = Reply(s, 250, "")
    /\ lastAck' = "none"
    /\ UNCHANGED << phase, config, disk, usedIds, workers, timers, received,
                    lastWritten >>

\* durableQueue.create resolved: webhookQueue.push({ taskId }), then callback().
OnDataCreated(s) ==
    /\ sessions[s].pc = "creating"
    /\ LET id == sessions[s].taskId
           task == NewTask(sessions[s].email)
       IN /\ disk' = With(disk, id, task)
          /\ lastWritten' = With(lastWritten, id, task)
          /\ pending' = Append(pending, id)
    /\ sessions' = [sessions EXCEPT ![s] = IdleSession]
    /\ lastReply' = Reply(s, 250, "")
    /\ lastAck' = "none"
    /\ UNCHANGED << phase, config, usedIds, workers, timers, received >>

----------------------------------------------------------------------------
(* sendToWebhook *)

NoEndpointsMessage == "No webhook endpoints found for this email"

AllFailedMessage(n) == "All " \o ToString(n) \o " webhook(s) failed"

\* Faulty variant of NoEndpoints: the empty-route check is missing.
NeverNoEndpoints(matchedWebhooks) == FALSE

NoEndpoints(matchedWebhooks) == Len(matchedWebhooks) = 0

\* Faulty variant of RetryFilter: retryOnlyFailed is ignored.
NoRetryFilter(matchedWebhooks, retryOnlyFailed) == matchedWebhooks

\* if (retryOnlyFailed && Array.isArray(retryOnlyFailed)) filter by url
RetryFilter(matchedWebhooks, retryOnlyFailed) ==
    IF retryOnlyFailed.arr
    THEN SelectSeq(matchedWebhooks,
                   LAMBDA m : \E i \in 1..Len(retryOnlyFailed.items) :
                                  retryOnlyFailed.items[i] = m.webhook)
    ELSE matchedWebhooks

\* Faulty variant of NothingToRetry: the early return is missing.
AlwaysSomethingToRetry(retryOnlyFailed, matchedWebhooks) == FALSE

\* the filter was applied and left no target: return { ..., note }
NothingToRetry(retryOnlyFailed, matchedWebhooks) ==
    retryOnlyFailed.arr /\ Len(matchedWebhooks) = 0

NoRetryTargetsNote == "No matching webhooks found for retry"

\* if (errors.length === matchedWebhooks.length) throw
AllFailed(errors, matchedWebhooks) == Len(errors) = Len(matchedWebhooks)

----------------------------------------------------------------------------
(* webhookQueue worker *)

Min(a, b) == IF a < b THEN a ELSE b

BackoffDelay(retries) == Min(1000 * 2 ^ (retries - 1), 10000)

\* Faulty variant of LoadAck: every load error is passed to cb.
LoadAckError(result) == "cb(error)"

\* Faulty variant of NextAttempts: the attempts of this cycle are not added.
SameAttempts(queueItem, retries) == queueItem.attempts

\* cb() for a task file that is gone, cb(error) for any other load error
LoadAck(result) == IF result = "ENOENT" THEN "cb()" ELSE "cb(error)"

NextAttempts(queueItem, retries) == queueItem.attempts + retries

\* the catch block of attemptWebhook, up to the choice between backoff and persist
Catch(wr, message, errFailed) ==
    LET fw == IF errFailed.arr /\ Len(errFailed.items) > 0
              THEN errFailed ELSE wr.failedWebhooks
        n == wr.retries + 1
    IN [wr EXCEPT !.failedWebhooks = fw, !.retries = n, !.lastErr = message,
                  !.matched = << >>, !.idx = 0, !.errors = << >>,
                  !.pc = IF n < maxRetries THEN "backoff" ELSE "persist",
                  !.delay = IF n < maxRetries THEN BackoffDelay(n) ELSE 0]

\* The synchronous start of attemptWebhook: sendToWebhook routes the email and applies
\* the retry filter; it throws at once, returns at once (nothing left to retry), or
\* enters the loop of POSTs (an empty loop ends at once, all of its 0 targets failed).
BeginAttempt(cfg, wr) ==
    LET routed == route(cfg, wr.queueItem.parsed)
        matchedWebhooks == RetryFilter(routed, wr.failedWebhooks)
    IN IF NoEndpoints(routed)
       THEN Catch(wr, NoEndpointsMessage, Null)
       ELSE IF NothingToRetry(wr.failedWebhooks, matchedWebhooks)
       THEN [wr EXCEPT !.pc = "removing", !.delay = 0, !.note = NoRetryTargetsNote]
       ELSE IF Len(matchedWebhooks) = 0
       THEN IF AllFailed(<< >>, matchedWebhooks)
            THEN Catch(wr, AllFailedMessage(0), Arr(<< >>))
            ELSE [wr EXCEPT !.pc = "removing", !.delay = 0]
       ELSE [wr EXCEPT !.pc = "posting", !.matched = matchedWebhooks,
                       !.idx = 1, !.errors = << >>, !.delay = 0]

LowestIdle(w) == /\ workers[w].pc = "idle"
                 /\ \A v \in Slots : workers[v].pc = "idle" => w <= v

\* A worker takes the next work item, loads its Task and makes the first attempt.
WorkerStart(w) ==
    /\ phase # "booting"
    /\ pending # << >>
    /\ LowestIdle(w)
    /\ LET id == Head(pending)
           result == GetResult(id)
       IN /\ pending' = Tail(pending)
          /\ IF result = "ok"
             THEN /\ workers' = [workers EXCEPT ![w] =
                        BeginAttempt(config, [IdleWorker EXCEPT
                            !.taskId = id, !.queueItem = disk[id],
                            !.failedWebhooks = disk[id].failedWebhooks])]
                  /\ lastAck' = "none"
             ELSE /\ lastAck' = LoadAck(result)
                  /\ UNCHANGED workers
    /\ lastReply' = NoReply
    /\ UNCHANGED << phase, config, disk, usedIds, timers, sessions, received,
                    lastWritten >>

\* One axios.post of the loop settles; after the last one sendToWebhook throws or returns.
Post(w) ==
    /\ workers[w].pc = "posting"
    /\ \E ok \in BOOLEAN :
          LET wr == workers[w]
              url == wr.matched[wr.idx].webhook
              errors == IF ok THEN wr.errors ELSE Append(wr.errors, url)
          IN /\ received' = IF ok
                            THEN [received EXCEPT ![wr.taskId] = @ \cup {url}]
                            ELSE received
             /\ workers' = [workers EXCEPT ![w] =
                  IF wr.idx < Len(wr.matched)
                  THEN [wr EXCEPT !.idx = wr.idx + 1, !.errors = errors]
                  ELSE IF AllFailed(errors, wr.matched)
                  THEN Catch(wr, AllFailedMessage(Len(wr.matched)), Arr(errors))
                  ELSE [wr EXCEPT !.pc = "removing", !.errors = errors]]
    /\ Quiet
    /\ UNCHANGED << phase, config, disk, usedIds, pending, timers, sessions,
                    lastWritten >>

\* sendToWebhook returned: durableQueue.remove(taskId), then cb(null, result).
Remove(w) ==
    /\ workers[w].pc = "removing"
    /\ disk' = Without(disk, workers[w].taskId)
    /\ lastWritten' = Without(lastWritten, workers[w].taskId)
    /\ workers' = [workers EXCEPT ![w] = IdleWorker]
    /\ lastAck' = "cb(null, result)"
    /\ lastReply' = NoReply
    /\ UNCHANGED << phase, config, usedIds, pending, timers, sessions, received >>

\* The exponential-backoff timer of an in-worker retry fires: the next attempt.
Backoff(w) ==
    /\ workers[w].pc = "backoff"
    /\ workers' = [workers EXCEPT ![w] = BeginAttempt(config, workers[w])]
    /\ Quiet
    /\ UNCHANGED << phase, config, disk, usedIds, pending, timers, sessions, received,
                    lastWritten >>

\* { ...current, failedWebhooks, lastError, attempts }
Patched(current, wr) ==
    [current EXCEPT !.failedWebhooks = wr.failedWebhooks,
                    !.lastError = wr.lastErr,
                    !.attempts = NextAttempts(wr.queueItem, wr.retries)]

\* setTimeout(() => webhookQueue.push({ taskId }), WEBHOOK_RETRY_DELAY_MS); cb(null, ...)
Requeue(w) ==
    /\ timers' = Append(timers, [taskId |-> workers[w].taskId,
                                 delay |-> WEBHOOK_RETRY_DELAY_MS])
    /\ workers' = [workers EXCEPT ![w] = IdleWorker]
    /\ lastAck' = "cb(null, queuedForRetry)"
    /\ lastReply' = NoReply

\* Retries exhausted: durableQueue.update reads the Task and opens its file for writing;
\* a failing update is logged and the re-enqueue is scheduled all the same.
Persist(w) ==
    /\ workers[w].pc = "persist"
    /\ NextAttempts(workers[w].queueItem, workers[w].retries) <= MaxAttempts
    /\ LET id == workers[w].taskId IN
       IF GetResult(id) = "ok"
       THEN /\ workers' = [workers EXCEPT ![w].pc = "writing",
                                          ![w].queueItem = Patched(disk[id], workers[w])]
            /\ disk' = [disk EXCEPT ![id] = Torn]
            /\ Quiet
            /\ UNCHANGED timers
       ELSE /\ Requeue(w)
            /\ UNCHANGED disk
    /\ UNCHANGED << phase, config, usedIds, pending, sessions, received, lastWritten >>

\* The write of update completes; the deferred re-enqueue is armed and cb is called.
PersistDone(w) ==
    /\ workers[w].pc = "writing"
    /\ LET id == workers[w].taskId IN
          /\ disk' = With(disk, id, workers[w].queueItem)
          /\ lastWritten' = With(lastWritten, id, workers[w].queueItem)
    /\ Requeue(w)
    /\ UNCHANGED << phase, config, usedIds, pending, sessions, received >>

\* A deferred re-enqueue timer fires: webhookQueue.push({ taskId }).
TimerFire ==
    /\ timers # << >>
    /\ pending' = Append(pending, Head(timers).taskId)
    /\ timers' = Tail(timers)
    /\ Quiet
    /\ UNCHANGED << phase, config, disk, usedIds, workers, sessions, received,
                    lastWritten >>

----------------------------------------------------------------------------
(* Environment *)

\* The process dies and is started again, possibly with another configuration.
Crash ==
    /\ phase' = "booting"
    /\ config' \in Configs
    /\ pending' = << >>
    /\ workers' = [w \in Slots |-> IdleWorker]
    /\ timers' = << >>
    /\ sessions' = [s \in SessionIds |-> IdleSession]
    /\ received' = [id \in TaskIds |-> {}]
    /\ Quiet
    /\ UNCHANGED << disk, usedIds, lastWritten >>

\* An operator discards a Task: durableQueue.remove from outside the dispatcher.
ExternalRemove(id) ==
    /\ id \in DOMAIN disk
    /\ disk[id].complete
    /\ disk' = Without(disk, id)
    /\ lastWritten' = Without(lastWritten, id)
    /\ Quiet
    /\ UNCHANGED << phase, config, usedIds, pending, workers, timers, sessions,
                    received >>

----------------------------------------------------------------------------

Next ==
    \/ replayDurableQueue /\ UNCHANGED pipelineFrame
    \/ Listen /\ UNCHANGED pipelineFrame
    \/ \E s \in SessionIds : OnData(s) /\ UNCHANGED pipelineFrame
    \/ \E s \in SessionIds : OnDataParsed(s) /\ UNCHANGED pipelineFrame
    \/ \E s \in SessionIds : OnDataCreated(s) /\ UNCHANGED pipelineFrame
    \/ \E w \in Slots : WorkerStart(w) /\ UNCHANGED pipelineFrame
    \/ \E w \in Slots : Post(w) /\ UNCHANGED pipelineFrame
    \/ \E w \in Slots : Remove(w) /\ UNCHANGED pipelineFrame
    \/ \E w \in Slots : Backoff(w) /\ UNCHANGED pipelineFrame
    \/ \E w \in Slots : Persist(w) /\ UNCHANGED pipelineFrame
    \/ \E w \in Slots : PersistDone(w) /\ UNCHANGED pipelineFrame
    \/ TimerFire /\ UNCHANGED pipelineFrame
    \/ Crash /\ UNCHANGED pipelineFrame
    \/ \E id \in TaskIds : ExternalRemove(id) /\ UNCHANGED pipelineFrame


----------------------------------------------------------------------------
(* emailSecurity *)

MappedPrefix == << ":", ":", "f", "f", "f", "f", ":" >>

normalizeIp(ip) ==
    IF ip = << >> THEN << >>
    ELSE LET lower == toLowerCase(trim(ip))
         IN  IF Len(lower) >= Len(MappedPrefix)
                /\ SubSeq(lower, 1, Len(MappedPrefix)) = MappedPrefix
             THEN SubSeq(lower, Len(MappedPrefix) + 1, Len(lower))
             ELSE lower

isIpAllowed(ip, allowedList) ==
    IF allowedList = {} THEN TRUE
    ELSE normalizeIp(ip) \in allowedList

\* parsedEmail.headers.get('authentication-results'): absent, a string, or an array.
NoHeader == [kind |-> "none", value |-> << >>]
StringHeader(str) == [kind |-> "string", value |-> str]
ArrayHeader(array) == [kind |-> "array", value |-> array]

getAuthenticationResultsHeader(header) ==
    IF header.kind = "array" THEN join(header.value, << ";", " " >>)
    ELSE header.value

\* Faulty variant of hasRequiredAuthResults: one required token is enough.
hasSomeRequiredAuthResult(header, requiredResults) ==
    IF requiredResults = {} THEN TRUE
    ELSE LET text == toLowerCase(getAuthenticationResultsHeader(header))
         IN  \E requiredResult \in requiredResults : includes(text, requiredResult)

hasRequiredAuthResults(header, requiredResults) ==
    IF requiredResults = {} THEN TRUE
    ELSE LET text == toLowerCase(getAuthenticationResultsHeader(header))
         IN  \A requiredResult \in requiredResults : includes(text, requiredResult)

----------------------------------------------------------------------------
(* Inputs of the policy *)

MaxTime == 2
MaxCalls == 3
MaxWindowMs == 1
MaxHits == 1

Ip1 == << "1" >>
IpFe == << "f", "e", ":", ":", "a" >>

RemoteAddresses ==
    { Ip1,
      MappedPrefix \o Ip1,
      << ":", ":", "F", "F", "F", "F", ":", "1" >>,
      IpFe,
      << "F", "E", ":", ":", "A" >> }

Keys == {normalizeIp(a) : a \in RemoteAddresses}

SpfPass == << "s", "p", "f", "=", "p", "a", "s", "s" >>
DmarcPass == << "d", "m", "a", "r", "c", "=", "p", "a", "s", "s" >>
SpfPassMixed == << "S", "P", "F", "=", "P", "a", "s", "s" >>
SpfFail == << "s", "p", "f", "=", "f", "a", "i", "l" >>

AuthHeaders ==
    { NoHeader,
      StringHeader(SpfPass),
      StringHeader(SpfPass \o << ";", " " >> \o DmarcPass),
      StringHeader(SpfPassMixed \o << ";", " " >> \o DmarcPass),
      StringHeader(SpfFail \o << ";", " " >> \o DmarcPass),
      ArrayHeader(<< DmarcPass, SpfPass >>) }

SmtpConfigs ==
    { c \in [ALLOWED_SMTP_CLIENTS : {{}, {Ip1}},
             TRUSTED_RELAY_IPS : {{}, {Ip1}, {IpFe}},
             REQUIRE_TRUSTED_RELAY : BOOLEAN,
             REQUIRED_AUTH_RESULTS : {{}, {SpfPass}, {SpfPass, DmarcPass}, {SpfPassMixed}},
             SMTP_RATE_LIMIT_WINDOW_MS : 1..MaxWindowMs,
             SMTP_RATE_LIMIT_MAX_CONNECTIONS : 1..MaxHits] :
        \* validateConfig
        /\ c.REQUIRE_TRUSTED_RELAY => c.TRUSTED_RELAY_IPS # {}
        /\ c.REQUIRED_AUTH_RESULTS # {} => c.TRUSTED_RELAY_IPS # {} }

\* A configuration without lists and required results.
OpenPolicy == [ALLOWED_SMTP_CLIENTS |-> {}, TRUSTED_RELAY_IPS |-> {},
               REQUIRE_TRUSTED_RELAY |-> FALSE, REQUIRED_AUTH_RESULTS |-> {},
               SMTP_RATE_LIMIT_WINDOW_MS |-> 1, SMTP_RATE_LIMIT_MAX_CONNECTIONS |-> 1]

NoConnect == [called |-> FALSE, remoteAddress |-> << >>, code |-> 0, message |-> ""]
NoData == [called |-> FALSE, remoteAddress |-> << >>, header |-> NoHeader, code |-> 0,
           message |-> "", created |-> FALSE]

PolicyInit ==
    /\ now = 0
    /\ hitsByKey = [k \in Keys |-> << >>]
    /\ calls = << >>
    /\ lastConnect = NoConnect
    /\ lastData = NoData

----------------------------------------------------------------------------
(* SlidingWindowRateLimiter *)

\* Faulty variant of WithinCap: the maxHits-th hit is already refused.
BelowCap(recentHits, maxHits) == Len(recentHits) < maxHits

WithinCap(recentHits, maxHits) == Len(recentHits) <= maxHits

RecentHits(key, windowMs) ==
    LET windowStart == now - windowMs
        previousHits == hitsByKey[key]
        InWindow(timestamp) == timestamp > windowStart
    IN  SelectSeq(previousHits, InWindow) \o << now >>

\* isAllowed(key), with the value it returns in `allowed`.
isAllowed(key, allowed) ==
    LET recentHits == RecentHits(key, smtpConfig.SMTP_RATE_LIMIT_WINDOW_MS)
    IN  /\ hitsByKey' = [hitsByKey EXCEPT ![key] = recentHits]
        /\ calls' = Append(calls, [key |-> key, at |-> now])
        /\ allowed = WithinCap(recentHits, smtpConfig.SMTP_RATE_LIMIT_MAX_CONNECTIONS)

----------------------------------------------------------------------------
(* SMTP handlers: connection and message policy *)

ConnectReply(a, code, message) ==
    lastConnect' = [called |-> TRUE, remoteAddress |-> a, code |-> code,
                    message |-> message]

\* Faulty variant of OnConnect: the rate limiter is consulted before the lists.
OnConnectLimiterFirst(a) ==
    LET remoteIp == normalizeIp(a)
    IN  /\ Len(calls) < MaxCalls
        /\ \E allowed \in BOOLEAN :
              /\ isAllowed(remoteIp, allowed)
              /\ IF ~isIpAllowed(remoteIp, smtpConfig.ALLOWED_SMTP_CLIENTS)
                 THEN ConnectReply(a, 550, "SMTP client not allowed")
                 ELSE IF smtpConfig.REQUIRE_TRUSTED_RELAY
                         /\ ~isIpAllowed(remoteIp, smtpConfig.TRUSTED_RELAY_IPS)
                 THEN ConnectReply(a, 550, "SMTP relay is not trusted")
                 ELSE IF ~allowed
                 THEN ConnectReply(a, 421, "Too many requests, try again later")
                 ELSE ConnectReply(a, 0, "")
        /\ lastData' = NoData
        /\ UNCHANGED << smtpConfig, now >>

OnConnect(a) ==
    LET remoteIp == normalizeIp(a)
    IN  /\ Len(calls) < MaxCalls
        /\ IF ~isIpAllowed(remoteIp, smtpConfig.ALLOWED_SMTP_CLIENTS)
           THEN /\ ConnectReply(a, 550, "SMTP client not allowed")
                /\ UNCHANGED << hitsByKey, calls >>
           ELSE IF smtpConfig.REQUIRE_TRUSTED_RELAY
                   /\ ~isIpAllowed(remoteIp, smtpConfig.TRUSTED_RELAY_IPS)
           THEN /\ ConnectReply(a, 550, "SMTP relay is not trusted")
                /\ UNCHANGED << hitsByKey, calls >>
           ELSE \E allowed \in BOOLEAN :
                   /\ isAllowed(remoteIp, allowed)
                   /\ IF ~allowed
                      THEN ConnectReply(a, 421, "Too many requests, try again later")
                      ELSE ConnectReply(a, 0, "")
        /\ lastData' = NoData
        /\ UNCHANGED << smtpConfig, now >>

DataReply(a, header, code, message) ==
    lastData' = [called |-> TRUE, remoteAddress |-> a, header |-> header, code |-> code,
                 message |-> message, created |-> code = 0]

\* onData once the message is parsed: the checks that precede durableQueue.create.
OnDataPolicy(a, header) ==
    LET remoteIp == normalizeIp(a)
        fromTrustedRelay == isIpAllowed(remoteIp, smtpConfig.TRUSTED_RELAY_IPS)
    IN  /\ IF smtpConfig.REQUIRE_TRUSTED_RELAY /\ ~fromTrustedRelay
           THEN DataReply(a, header, 550, "SMTP relay is not trusted")
           ELSE IF smtpConfig.REQUIRED_AUTH_RESULTS # {} /\ ~fromTrustedRelay
           THEN DataReply(a, header, 550, "Authentication results require a trusted relay")
           ELSE IF smtpConfig.REQUIRED_AUTH_RESULTS # {}
                   /\ ~hasRequiredAuthResults(header, smtpConfig.REQUIRED_AUTH_RESULTS)
           THEN DataReply(a, header, 550, "Email failed authentication policy checks")
           ELSE DataReply(a, header, 0, "")
        /\ lastConnect' = NoConnect
        /\ UNCHANGED << smtpConfig, now, hitsByKey, calls >>

\* Time passes.
Tick ==
    /\ now < MaxTime
    /\ now' = now + 1
    /\ lastConnect' = NoConnect
    /\ lastData' = NoData
    /\ UNCHANGED << smtpConfig, hitsByKey, calls >>

----------------------------------------------------------------------------
(* Routing and webhook requests, studied on their own *)

MaxRules == 2

AddrAX == << "a", "@", "x" >>
AddrBY == << "b", "@", "y" >>

NoConditions == [field \in {} |-> << >>]

RuleP1 == [name |-> "p1", conditions |-> NoConditions, webhook |-> "https://a",
           priority |-> 1, stopProcessing |-> FALSE]
RuleP0Stop == [name |-> "p0", conditions |-> NoConditions, webhook |-> "https://b",
               priority |-> 0, stopProcessing |-> TRUE]
RuleNoPriority == [name |-> "np", conditions |-> NoConditions, webhook |-> "https://c",
                   stopProcessing |-> FALSE]
RuleNegative == [name |-> "neg", conditions |-> [subject |-> << "s", "1" >>],
                 webhook |-> "https://a", priority |-> -1, stopProcessing |-> FALSE]
RuleAnd == [name |-> "and", conditions |-> [to |-> AddrAX, subject |-> << "s", "1" >>],
            webhook |-> "https://b", priority |-> 1, stopProcessing |-> TRUE]
RuleWild == [name |-> "wild", conditions |-> [to |-> << "a", "@", "*" >>],
             webhook |-> "https://c", priority |-> 2, stopProcessing |-> FALSE]
RuleRegex == [name |-> "regex", conditions |-> [to |-> << "/", "^", "A", "@", "/", "i" >>],
              webhook |-> "https://a", priority |-> 2, stopProcessing |-> FALSE]
RuleHttp == [name |-> "http", conditions |-> NoConditions, webhook |-> "http://d",
             priority |-> 3, stopProcessing |-> FALSE]

RulePool == {RuleP1, RuleP0Stop, RuleNoPriority, RuleNegative, RuleAnd, RuleWild,
             RuleRegex, RuleHttp}

RuleLists == UNION {[1..n -> RulePool] : n \in 0..MaxRules}

RouterConfigs ==
    { c \in [WEBHOOK_RULES : RuleLists,
             WEBHOOK_URL : {"", "https://a", "http://d"},
             ALLOW_INSECURE_WEBHOOK_HTTP : BOOLEAN,
             WEBHOOK_SECRET : {"", "test-secret"}] :
        \* validateConfig
        c.WEBHOOK_URL # "" \/ c.WEBHOOK_RULES # << >> }

RoutedEmails ==
    [to : {Undefined, Str(AddrAX), Str(AddrBY),
           AddressObject(<< >>, << [address |-> AddrBY], [address |-> AddrAX] >>),
           AddressObject(AddrBY \o << ",", " " >> \o AddrAX,
                         << [address |-> AddrBY], [address |-> AddrAX] >>)},
     subject : {Str(<< "S", "1" >>), Str(<< "s", "2" >>)}]

\* A configuration with the default webhook alone.
DefaultOnly == [WEBHOOK_RULES |-> << >>, WEBHOOK_URL |-> "https://a",
                ALLOW_INSECURE_WEBHOOK_HTTP |-> FALSE, WEBHOOK_SECRET |-> ""]

NoDecision == [called |-> FALSE, email |-> NoEmail, result |-> << >>]
NoPost == [sent |-> FALSE, url |-> "", headers |-> << >>, data |-> NoEmail]

RouterInit ==
    /\ routerConfig \in RouterConfigs
    /\ decision = NoDecision
    /\ lastPost = NoPost

\* sendToWebhook(data): webhookRouter.route(data)
Route(email) ==
    /\ decision' = [called |-> TRUE, email |-> email,
                    result |-> route(routerConfig, email)]
    /\ lastPost' = NoPost
    /\ UNCHANGED routerConfig

\* The headers of axios.post
PostHeaders == [name \in {"Content-Type", "User-Agent"} |->
                   IF name = "Content-Type" THEN "application/json"
                   ELSE "inbound-email-service/1.0"]

\* sendToWebhook(data): the request sent to one of the matched webhooks
PostRequest(i) ==
    /\ decision.called
    /\ i \in DOMAIN decision.result
    /\ lastPost' = [sent |-> TRUE, url |-> decision.result[i].webhook,
                    headers |-> PostHeaders, data |-> decision.email]
    /\ UNCHANGED << routerConfig, decision >>

RouterNext ==
    \/ \E email \in RoutedEmails : Route(email) /\ UNCHANGED routerFrame
    \/ \E i \in 1..(MaxRules + 1) : PostRequest(i) /\ UNCHANGED routerFrame

----------------------------------------------------------------------------
(* Attachment storage: inputs *)

MaxUploads == 2
MaxTicks == 3
MaxOverlap == 2

MAX_FILE_SIZE == 2
S3_MAX_RETRIES == 1

\* File names are sequences of pieces: "a.txt", "b.meta.txt", "c.meta".
FileNames == { << "a", ".txt" >>, << "b", ".meta", ".txt" >>, << "c", ".meta" >> }

Attachments ==
    [filename : FileNames, size : {MAX_FILE_SIZE}]
    \cup {[filename |-> << "a", ".txt" >>, size |-> MAX_FILE_SIZE + 1]}

AttachmentLists == UNION {[1..n -> Attachments] : n \in 0..MaxUploads}

UploadIds == 1..MaxUploads
TickIds == 1..MaxTicks

----------------------------------------------------------------------------
(* LocalStorage *)

\* `${timestamp}-${hash}-${base}${ext}`: the stamp is never reused.
generateFilename(stamp, originalName) == << stamp >> \o originalName

MetaOf(filepath) == filepath \o << ".meta" >>

endsWith(file, suffix) == file # << >> /\ file[Len(file)] = suffix

\* String.prototype.replace(searchValue, ''): the first occurrence only.
RECURSIVE replace(_, _)
replace(str, searchValue) ==
    IF str = << >> THEN str
    ELSE IF Head(str) = searchValue THEN Tail(str)
    ELSE << Head(str) >> \o replace(Tail(str), searchValue)

DataFile(call) == [kind |-> "data", call |-> call, originalName |-> << >>]
MetaFile(originalName) == [kind |-> "meta", call |-> 0, originalName |-> originalName]

\* JSON.parse of the text of a file: attachment bytes are no JSON document.
ParsesAsJson(file) == file.kind = "meta"

\* The loop of getRetryQueue over the directory listing, in readdir order.
RECURSIVE ScanListing(_, _, _)
ScanListing(listing, files, queue) ==
    IF listing = << >> THEN [queue |-> queue, files |-> files]
    ELSE LET file == Head(listing) IN
         IF ~endsWith(file, ".meta") THEN ScanListing(Tail(listing), files, queue)
         ELSE IF file \notin DOMAIN files \/ ~ParsesAsJson(files[file])
         THEN \* readFile or JSON.parse throws: caught, return []
              [queue |-> << >>, files |-> files]
         ELSE LET dataPath == replace(file, ".meta") IN
              IF dataPath \in DOMAIN files
              THEN ScanListing(Tail(listing), files,
                               Append(queue, [filepath |-> dataPath,
                                              metadata |-> files[file]]))
              ELSE ScanListing(Tail(listing), Without(files, file), queue)

\* readdir: the names of the directory, in an order the file system chooses.  The
\* names that do not end in .meta are left out: the loop skips them.
Listings(files) ==
    LET names == {file \in DOMAIN files : endsWith(file, ".meta")}
    IN  {listing \in [1..Cardinality(names) -> names] :
            {listing[i] : i \in DOMAIN listing} = names}

getRetryQueue(listing) == ScanListing(listing, localFiles, << >>)

\* remove(filepath): unlink the data file, then the meta file; errors are logged only.
remove(files, filepath) ==
    IF filepath \notin DOMAIN files THEN files
    ELSE Without(Without(files, filepath), MetaOf(filepath))

\* What earlier runs of the process may have left in the directory.
Leftovers ==
    { << >>,
      (<< "0", "a", ".txt" >> :> DataFile(0))
          @@ (<< "0", "a", ".txt", ".meta" >> :> MetaFile(<< "a", ".txt" >>)),
      (<< "0", "a", ".txt", ".meta" >> :> MetaFile(<< "a", ".txt" >>)) }

----------------------------------------------------------------------------
(* s3Service: uploadToS3 *)

NoLocation == << >>

NotCalled == [pc |-> "none", attachment |-> [filename |-> << >>, size |-> 0],
              primary |-> "none", saved |-> FALSE, queued |-> FALSE, threw |-> FALSE,
              location |-> NoLocation, storageType |-> ""]

ItemId(kind, call, path) == [kind |-> kind, call |-> call, path |-> path]

AttemptsOf(attempts, itemId) ==
    IF itemId \in DOMAIN attempts THEN attempts[itemId] ELSE 0

Delete(queue, itemId) ==
    LET Other(item) == item.id # itemId IN SelectSeq(queue, Other)

Has(queue, itemId) == \E i \in DOMAIN queue : queue[i].id = itemId

\* Faulty variant of ExceedsLimit: an attachment of exactly MAX_FILE_SIZE is skipped.
ReachesLimit(size) == size >= MAX_FILE_SIZE

ExceedsLimit(size) == size > MAX_FILE_SIZE

\* uploadToS3(attachment) up to its first await.
Called(call, attachment) ==
    LET fresh == [NotCalled EXCEPT !.attachment = attachment] IN
    IF ExceedsLimit(attachment.size)
    THEN [fresh EXCEPT !.pc = "done", !.storageType = "skipped"]
    ELSE IF ~isS3Configured
    THEN [fresh EXCEPT !.pc = "writing", !.saved = TRUE]
    ELSE [fresh EXCEPT !.pc = "primary"]

\* upload.done() settles.
PrimaryDone(call, ok) ==
    /\ uploads[call].pc = "primary"
    /\ uploads' = [uploads EXCEPT ![call] =
          IF ok
          THEN [@ EXCEPT !.pc = "done", !.primary = "ok", !.storageType = "s3",
                         !.location = << "s3", ToString(call) >>]
          ELSE [@ EXCEPT !.pc = "writing", !.primary = "failed", !.saved = TRUE]]
    /\ UNCHANGED << isS3Configured, localFiles, retryQueue, retryAttempts, retryInterval,
                    intervals, ticks, scan, parseCall, drained >>

LocalPath(call) == generateFilename(ToString(call), uploads[call].attachment.filename)

\* localStorage.save: the two fs.writeFile calls settle ("data": the first one fails,
\* "meta": the second one fails).  The promise of save is not resolved yet.
SaveWritten(call, outcome) ==
    /\ uploads[call].pc = "writing"
    /\ localFiles' =
          IF outcome = "data" THEN localFiles
          ELSE IF outcome = "meta" THEN With(localFiles, LocalPath(call), DataFile(call))
          ELSE With(With(localFiles, LocalPath(call), DataFile(call)),
                    MetaOf(LocalPath(call)), MetaFile(uploads[call].attachment.filename))
    /\ uploads' = [uploads EXCEPT ![call] =
          IF outcome = "ok" THEN [@ EXCEPT !.pc = "saved"]
          ELSE [@ EXCEPT !.pc = "done", !.threw = TRUE]]
    /\ UNCHANGED << isS3Configured, retryQueue, retryAttempts, retryInterval, intervals,
                    ticks, scan, parseCall, drained >>

\* startRetryProcess(): setInterval returns a new handle.
NewHandle == Cardinality(DOMAIN intervals) + 1

startRetryProcess ==
    /\ retryInterval' = NewHandle
    /\ intervals' = With(intervals, NewHandle, "active")

\* Faulty variant of SaveReturn: the retry process is not started.
SaveReturnNoProcess(call) ==
    /\ uploads[call].pc = "saved"
    /\ uploads' = [uploads EXCEPT ![call] =
          [@ EXCEPT !.pc = "done", !.storageType = "local",
                    !.location = LocalPath(call),
                    !.queued = uploads[call].primary = "failed"]]
    /\ IF uploads[call].primary = "failed"
       THEN LET itemId == ItemId("new", call, << >>) IN
            /\ retryQueue' = Append(retryQueue,
                                    [id |-> itemId, localPath |-> LocalPath(call)])
            /\ retryAttempts' = With(retryAttempts, itemId, 0)
       ELSE UNCHANGED << retryQueue, retryAttempts >>
    /\ UNCHANGED << isS3Configured, localFiles, retryInterval, intervals, ticks, scan,
                    parseCall, drained >>

\* save resolved with success: uploadToS3 goes on to its return.
SaveReturn(call) ==
    /\ uploads[call].pc = "saved"
    /\ uploads' = [uploads EXCEPT ![call] =
          [@ EXCEPT !.pc = "done", !.storageType = "local",
                    !.location = LocalPath(call),
                    !.queued = uploads[call].primary = "failed"]]
    /\ IF uploads[call].primary = "failed"
       THEN LET itemId == ItemId("new", call, << >>) IN
            /\ retryQueue' = Append(retryQueue,
                                    [id |-> itemId, localPath |-> LocalPath(call)])
            /\ retryAttempts' = With(retryAttempts, itemId, 0)
            /\ IF retryInterval = 0
               THEN startRetryProcess
               ELSE UNCHANGED << retryInterval, intervals >>
       ELSE UNCHANGED << retryQueue, retryAttempts, retryInterval, intervals >>
    /\ UNCHANGED << isS3Configured, localFiles, ticks, scan, parseCall, drained >>

----------------------------------------------------------------------------
(* s3Service: the retry process *)

NotFired == [pc |-> "none", timer |-> 0, items |-> << >>,
             item |-> [id |-> ItemId("", 0, << >>), localPath |-> << >>],
             attempts |-> 0, persisted |-> << >>]

Returned == [NotFired EXCEPT !.pc = "returned"]

\* The for loop over itemsToRetry up to the next upload: an item at the cap is dropped,
\* and an item whose file fs.readFile cannot read (it is not among `files`) counts a
\* failed attempt.  The read is taken to settle before anything else happens.
RECURSIVE Advance(_, _, _, _)
Advance(items, queue, attempts, files) ==
    IF items = << >> THEN [items |-> items, queue |-> queue, attempts |-> attempts]
    ELSE LET item == Head(items)
             n == AttemptsOf(attempts, item.id)
         IN  IF n >= S3_MAX_RETRIES
             THEN Advance(Tail(items), Delete(queue, item.id), Without(attempts, item.id),
                          files)
             ELSE IF item.localPath \notin DOMAIN files
             THEN Advance(Tail(items), queue, With(attempts, item.id, n + 1), files)
             ELSE [items |-> items, queue |-> queue, attempts |-> attempts]

\* The loop goes on with `items`: either the upload of the next item is awaited, or the
\* callback returns.
Continue(k, timer, items, queue, attempts, files) ==
    LET rest == Advance(items, queue, attempts, files) IN
    /\ retryQueue' = rest.queue
    /\ retryAttempts' = rest.attempts
    /\ ticks' = [ticks EXCEPT ![k] =
          IF rest.items = << >> THEN Returned
          ELSE [NotFired EXCEPT !.pc = "uploading", !.timer = timer,
                                !.item = Head(rest.items),
                                !.attempts = AttemptsOf(rest.attempts, Head(rest.items).id),
                                !.items = Tail(rest.items)]]

NextTick == CHOOSE k \in TickIds : ticks[k].pc = "none" /\ \A j \in 1..(k - 1) : ticks[j].pc # "none"

\* The callbacks that have not returned yet.
Running == Cardinality({k \in TickIds : ticks[k].pc \notin {"none", "returned"}})

\* A retry timer fires: the callback runs up to its first await.
TickFire(timer) ==
    /\ timer \in DOMAIN intervals
    /\ intervals[timer] = "active"
    /\ \E k \in TickIds : ticks[k].pc = "none"
    /\ Running < MaxOverlap
    /\ IF ~isS3Configured
       THEN /\ ticks' = [ticks EXCEPT ![NextTick] = Returned]
            /\ UNCHANGED << retryQueue, retryAttempts >>
       ELSE IF retryQueue = << >>
       THEN /\ ticks' = [ticks EXCEPT ![NextTick] =
                            [NotFired EXCEPT !.pc = "listing", !.timer = timer]]
            /\ UNCHANGED << retryQueue, retryAttempts >>
       ELSE Continue(NextTick, timer, retryQueue, retryQueue, retryAttempts, localFiles)
    /\ UNCHANGED << isS3Configured, localFiles, retryInterval, intervals, uploads, scan,
                    parseCall, drained >>

\* localStorage.getRetryQueue() reads the directory.
TickListing(k) ==
    /\ ticks[k].pc = "listing"
    /\ \E listing \in Listings(localFiles) :
          LET result == getRetryQueue(listing) IN
          /\ localFiles' = result.files
          /\ ticks' = [ticks EXCEPT ![k].pc = "listed", ![k].persisted = result.queue]
    /\ UNCHANGED << isS3Configured, retryQueue, retryAttempts, retryInterval, intervals,
                    uploads, scan, parseCall, drained >>

\* retryQueue.set for every persisted file that has no item yet.
RECURSIVE AddPersisted(_, _, _)
AddPersisted(persistedQueue, queue, attempts) ==
    IF persistedQueue = << >> THEN [queue |-> queue, attempts |-> attempts]
    ELSE LET item == Head(persistedQueue)
             itemId == ItemId("persisted", 0, item.filepath)
         IN  IF Has(queue, itemId)
             THEN AddPersisted(Tail(persistedQueue), queue, attempts)
             ELSE AddPersisted(Tail(persistedQueue),
                               Append(queue, [id |-> itemId, localPath |-> item.filepath]),
                               With(attempts, itemId, AttemptsOf(attempts, itemId)))

\* getRetryQueue() resolved: stop the process, or take the persisted files and go on.
TickLoaded(k) ==
    /\ ticks[k].pc = "listed"
    /\ IF ticks[k].persisted = << >>
       THEN /\ intervals' = IF retryInterval = 0 THEN intervals
                            ELSE [intervals EXCEPT ![retryInterval] = "cleared"]
            /\ retryInterval' = 0
            /\ ticks' = [ticks EXCEPT ![k] = Returned]
            /\ UNCHANGED << retryQueue, retryAttempts >>
       ELSE LET loaded == AddPersisted(ticks[k].persisted, retryQueue, retryAttempts) IN
            /\ Continue(k, ticks[k].timer, loaded.queue, loaded.queue, loaded.attempts,
                        localFiles)
            /\ UNCHANGED << retryInterval, intervals >>
    /\ UNCHANGED << isS3Configured, localFiles, uploads, scan, parseCall, drained >>

Tried(file) == IF file \in DOMAIN drained THEN drained[file].tried ELSE 0
Uploaded(file) == IF file \in DOMAIN drained THEN drained[file].uploaded ELSE 0

\* upload.done() settles.
TickUploaded(k, ok) ==
    /\ ticks[k].pc = "uploading"
    /\ drained' = With(drained, ticks[k].item.localPath,
                       [tried |-> Tried(ticks[k].item.localPath) + 1,
                        uploaded |-> Uploaded(ticks[k].item.localPath)
                                     + (IF ok THEN 1 ELSE 0)])
    /\ IF ok
       THEN /\ ticks' = [ticks EXCEPT ![k].pc = "removing"]
            /\ UNCHANGED << retryQueue, retryAttempts >>
       ELSE Continue(k, ticks[k].timer, ticks[k].items, retryQueue,
                     With(retryAttempts, ticks[k].item.id, ticks[k].attempts + 1), localFiles)
    /\ UNCHANGED << isS3Configured, localFiles, retryInterval, intervals, uploads, scan,
                    parseCall >>

\* localStorage.remove(item.localPath) resolved: the item leaves the retry set.
TickRemoved(k) ==
    /\ ticks[k].pc = "removing"
    /\ localFiles' = remove(localFiles, ticks[k].item.localPath)
    /\ Continue(k, ticks[k].timer, ticks[k].items, Delete(retryQueue, ticks[k].item.id),
                Without(retryAttempts, ticks[k].item.id), localFiles')
    /\ UNCHANGED << isS3Configured, retryInterval, intervals, uploads, scan, parseCall,
                    drained >>

\* The startup scan: localStorage.getRetryQueue() reads the directory.
StartupListing ==
    /\ scan.pc = "listing"
    /\ \E listing \in Listings(localFiles) :
          LET result == getRetryQueue(listing) IN
          /\ localFiles' = result.files
          /\ scan' = [pc |-> "listed", found |-> Len(result.queue)]
    /\ UNCHANGED << isS3Configured, retryQueue, retryAttempts, retryInterval, intervals,
                    uploads, ticks, parseCall, drained >>

\* The startup scan: getRetryQueue() resolved.
StartupDone ==
    /\ scan.pc = "listed"
    /\ scan' = [scan EXCEPT !.pc = "done"]
    /\ IF scan.found > 0 /\ isS3Configured
       THEN startRetryProcess
       ELSE UNCHANGED << retryInterval, intervals >>
    /\ UNCHANGED << isS3Configured, localFiles, retryQueue, retryAttempts, uploads, ticks,
                    parseCall, drained >>

\* LocalStorage.cleanup: a data file past its retention is unlinked with its meta file.
Cleanup(file) ==
    /\ file \in DOMAIN localFiles
    /\ ~endsWith(file, ".meta")
    /\ localFiles' = Without(Without(localFiles, file), MetaOf(file))
    /\ UNCHANGED << isS3Configured, retryQueue, retryAttempts, retryInterval, intervals,
                    uploads, ticks, scan, parseCall, drained >>

----------------------------------------------------------------------------
(* emailParser: parseEmail, and what onData does with its result *)

NoParsed == [attachmentInfo |-> << >>, skippedAttachments |-> << >>,
             storageSummary |-> << >>]

NoParse == [pc |-> "idle", promises |-> << >>, parsed |-> NoParsed, persisted |-> FALSE,
            code |-> 0]

\* Promise.all in the place of Promise.allSettled: one rejection rejects the whole.
all(promises) ==
    [rejected |-> \E i \in DOMAIN promises : uploads[promises[i]].threw,
     results |-> [i \in DOMAIN promises |->
                     [status |-> IF uploads[promises[i]].threw THEN "rejected"
                                 ELSE "fulfilled"]]]

\* Promise.allSettled over the uploadToS3 promises of the attachments.
allSettled(promises) ==
    [rejected |-> FALSE,
     results |-> [i \in DOMAIN promises |->
                     [status |-> IF uploads[promises[i]].threw THEN "rejected"
                                 ELSE "fulfilled"]]]

\* Faulty variant of Processed: the entry of a rejected promise is marked skipped.
ProcessedFailedAsSkipped(promises, results) ==
    [i \in DOMAIN promises |->
        LET call == uploads[promises[i]] IN
        IF results[i].status = "fulfilled"
        THEN [filename |-> call.attachment.filename, size |-> call.attachment.size,
              location |-> call.location, storageType |-> call.storageType,
              skipped |-> call.storageType = "skipped"]
        ELSE [filename |-> call.attachment.filename, size |-> call.attachment.size,
              location |-> NoLocation, storageType |-> "failed", skipped |-> TRUE]]

\* processedAttachments
Processed(promises, results) ==
    [i \in DOMAIN promises |->
        LET call == uploads[promises[i]] IN
        IF results[i].status = "fulfilled"
        THEN [filename |-> call.attachment.filename, size |-> call.attachment.size,
              location |-> call.location, storageType |-> call.storageType,
              skipped |-> call.storageType = "skipped"]
        ELSE [filename |-> call.attachment.filename, size |-> call.attachment.size,
              location |-> NoLocation, storageType |-> "failed", skipped |-> FALSE]]

\* Faulty variant of Summarised: the storageSummary is there without attachments too.
SummarisedAlways(processed) ==
    LET Skipped(att) == att.skipped
        Kept(att) == ~att.skipped
        InS3(att) == att.storageType = "s3"
        Local(att) == att.storageType = "local"
        Info(att) == [filename |-> att.filename, size |-> att.size,
                      location |-> att.location, storageType |-> att.storageType]
        Skip(att) == [filename |-> att.filename, size |-> att.size]
        kept == SelectSeq(processed, Kept)
        skipped == SelectSeq(processed, Skipped)
    IN  [attachmentInfo |-> [i \in DOMAIN kept |-> Info(kept[i])],
         skippedAttachments |-> [i \in DOMAIN skipped |-> Skip(skipped[i])],
         storageSummary |->
             << [total |-> Len(processed),
                 uploadedToS3 |-> Len(SelectSeq(processed, InS3)),
                 storedLocally |-> Len(SelectSeq(processed, Local)),
                 skipped |-> Len(SelectSeq(processed, Skipped))] >>]

\* The rest of parseEmail: attachmentInfo, skippedAttachments and storageSummary.
Summarised(processed) ==
    LET Skipped(att) == att.skipped
        Kept(att) == ~att.skipped
        InS3(att) == att.storageType = "s3"
        Local(att) == att.storageType = "local"
        Info(att) == [filename |-> att.filename, size |-> att.size,
                      location |-> att.location, storageType |-> att.storageType]
        Skip(att) == [filename |-> att.filename, size |-> att.size]
        kept == SelectSeq(processed, Kept)
        skipped == SelectSeq(processed, Skipped)
    IN  [attachmentInfo |-> [i \in DOMAIN kept |-> Info(kept[i])],
         skippedAttachments |-> [i \in DOMAIN skipped |-> Skip(skipped[i])],
         storageSummary |->
             IF Len(processed) > 0
             THEN << [total |-> Len(processed),
                      uploadedToS3 |-> Len(SelectSeq(processed, InS3)),
                      storedLocally |-> Len(SelectSeq(processed, Local)),
                      skipped |-> Len(SelectSeq(processed, Skipped))] >>
             ELSE << >>]

CallsMade == Cardinality({call \in UploadIds : uploads[call].pc # "none"})

\* simpleParser resolved: uploadToS3 is called for every attachment, in order.
parseEmail(attachments) ==
    /\ parseCall.pc \in {"idle", "accepted", "rejected"}
    /\ CallsMade + Len(attachments) <= MaxUploads
    /\ LET promises == [i \in DOMAIN attachments |-> CallsMade + i] IN
       /\ uploads' = [call \in UploadIds |->
             IF \E i \in DOMAIN promises : promises[i] = call
             THEN Called(call, attachments[call - CallsMade])
             ELSE uploads[call]]
       /\ parseCall' = [NoParse EXCEPT !.pc = "uploading", !.promises = promises]
    /\ UNCHANGED << isS3Configured, localFiles, retryQueue, retryAttempts, retryInterval,
                    intervals, ticks, scan, drained >>

\* Every uploadToS3 call has settled: parseEmail returns, or onData answers 451.
ParseEmailSettled ==
    /\ parseCall.pc = "uploading"
    /\ \A i \in DOMAIN parseCall.promises : uploads[parseCall.promises[i]].pc = "done"
    /\ LET settled == allSettled(parseCall.promises) IN
       parseCall' =
          IF settled.rejected
          THEN [parseCall EXCEPT !.pc = "rejected", !.code = 451]
          ELSE [parseCall EXCEPT !.pc = "parsed",
                   !.parsed = Summarised(Processed(parseCall.promises, settled.results))]
    /\ UNCHANGED << isS3Configured, localFiles, retryQueue, retryAttempts, retryInterval,
                    intervals, uploads, ticks, scan, drained >>

\* onData: the policy lets the message pass, durableQueue.create, callback().
OnDataPersisted ==
    /\ parseCall.pc = "parsed"
    /\ parseCall' = [parseCall EXCEPT !.pc = "accepted", !.persisted = TRUE,
                                      !.code = 250]
    /\ UNCHANGED << isS3Configured, localFiles, retryQueue, retryAttempts, retryInterval,
                    intervals, uploads, ticks, scan, drained >>

----------------------------------------------------------------------------
(* The attachment storage tier as a whole *)

StorageInit ==
    /\ isS3Configured \in BOOLEAN
    /\ localFiles \in Leftovers
    /\ retryQueue = << >>
    /\ retryAttempts = << >>
    /\ retryInterval = 0
    /\ intervals = << >>
    /\ uploads = [call \in UploadIds |-> NotCalled]
    /\ ticks = [k \in TickIds |-> NotFired]
    /\ scan = [pc |-> "listing", found |-> 0]
    /\ parseCall = NoParse
    /\ drained = << >>

\* The storage tier while another part of the program is studied.
StorageIdle ==
    /\ StorageInit
    /\ ~isS3Configured
    /\ localFiles = << >>

\* Messages arrive and their attachments are stored; no retry timer fires meanwhile.
UploadNext ==
    \/ \E attachments \in AttachmentLists : parseEmail(attachments) /\ UNCHANGED storageFrame
    \/ \E call \in UploadIds, ok \in BOOLEAN : PrimaryDone(call, ok) /\ UNCHANGED storageFrame
    \/ \E call \in UploadIds, outcome \in {"ok", "data", "meta"} :
          SaveWritten(call, outcome) /\ UNCHANGED storageFrame
    \/ \E call \in UploadIds : SaveReturn(call) /\ UNCHANGED storageFrame
    \/ ParseEmailSettled /\ UNCHANGED storageFrame
    \/ OnDataPersisted /\ UNCHANGED storageFrame
    \/ StartupListing /\ UNCHANGED storageFrame
    \/ StartupDone /\ UNCHANGED storageFrame

\* One message with one attachment at most, next to the retry process.
OneMessage == {attachments \in AttachmentLists : Len(attachments) <= 1}

StorageNext ==
    \/ \E attachments \in OneMessage :
          parseCall.pc = "idle" /\ parseEmail(attachments) /\ UNCHANGED storageFrame
    \/ \E call \in UploadIds, ok \in BOOLEAN : PrimaryDone(call, ok) /\ UNCHANGED storageFrame
    \/ \E call \in UploadIds, outcome \in {"ok", "data", "meta"} :
          SaveWritten(call, outcome) /\ UNCHANGED storageFrame
    \/ \E call \in UploadIds : SaveReturn(call) /\ UNCHANGED storageFrame
    \/ ParseEmailSettled /\ UNCHANGED storageFrame
    \/ OnDataPersisted /\ UNCHANGED storageFrame
    \/ StartupListing /\ UNCHANGED storageFrame
    \/ StartupDone /\ UNCHANGED storageFrame
    \/ \E timer \in DOMAIN intervals : TickFire(timer) /\ UNCHANGED storageFrame
    \/ \E k \in TickIds : TickListing(k) /\ UNCHANGED storageFrame
    \/ \E k \in TickIds : TickLoaded(k) /\ UNCHANGED storageFrame
    \/ \E k \in TickIds, ok \in BOOLEAN : TickUploaded(k, ok) /\ UNCHANGED storageFrame
    \/ \E k \in TickIds : TickRemoved(k) /\ UNCHANGED storageFrame
    \/ \E file \in DOMAIN localFiles : Cleanup(file) /\ UNCHANGED storageFrame

----------------------------------------------------------------------------
(* LocalStorage: encryption at rest *)

MaxContent == 2
MaxByte == 3

\* Bytes, and the contents of an attachment.
Bytes == 0..MaxByte
Contents == UNION {[1..n -> Bytes] : n \in 0..MaxContent}

\* LOCAL_STORAGE_ENCRYPTION_KEY: not set (null), or one of two keys.
NoKey == 0
EncryptionKeys == {NoKey, 1, 2}

\* crypto.randomBytes(12)
Ivs == 0..MaxByte

\* Bitwise exclusive or.
RECURSIVE Xor(_, _)
Xor(a, b) ==
    IF a = 0 THEN b
    ELSE IF b = 0 THEN a
    ELSE ((a + b) % 2) + 2 * Xor(a \div 2, b \div 2)

\* The keystream of the counter mode: block i under this key and iv.  A stand-in for
\* AES that, like AES, is a function of the key, the iv and the position, and takes
\* every byte value.
KeyStream(key, iv, i) == (key * i + iv) % (MaxByte + 1)

\* cipher.update(content) + cipher.final(): each byte xored with its keystream byte.
Crypt(key, iv, content) == [i \in DOMAIN content |-> Xor(content[i], KeyStream(key, iv, i))]

RECURSIVE SumOf(_)
SumOf(bytes) == IF bytes = << >> THEN 0 ELSE Head(bytes) + SumOf(Tail(bytes))

\* cipher.getAuthTag(): a keyed checksum of the ciphertext and its length.
AuthTag(key, iv, encrypted) ==
    (key + iv + Len(encrypted) + SumOf(encrypted)) % (MaxByte + 1)

NoEncryption == [present |-> FALSE, iv |-> 0, authTag |-> 0]

encryptContent(key, iv, content) ==
    IF key = NoKey THEN [content |-> content, encryption |-> NoEncryption]
    ELSE LET encryptedContent == Crypt(key, iv, content) IN
         [content |-> encryptedContent,
          encryption |-> [present |-> TRUE, iv |-> iv,
                          authTag |-> AuthTag(key, iv, encryptedContent)]]

Thrown == [threw |-> TRUE, content |-> << >>]
Returns(content) == [threw |-> FALSE, content |-> content]

\* Faulty variant of decryptContent: decipher.final() does not compare the tags.
decryptUnchecked(key, content, metadata) ==
    IF ~metadata.encrypted THEN Returns(content)
    ELSE IF key = NoKey \/ ~metadata.encryption.present THEN Thrown
    ELSE Returns(Crypt(key, metadata.encryption.iv, content))

\* decryptContent: decipher.final() throws when the tag of the content is not the tag
\* set with setAuthTag.
decryptContent(key, content, metadata) ==
    IF ~metadata.encrypted THEN Returns(content)
    ELSE IF key = NoKey \/ ~metadata.encryption.present THEN Thrown
    ELSE IF AuthTag(key, metadata.encryption.iv, content) # metadata.encryption.authTag
    THEN Thrown
    ELSE Returns(Crypt(key, metadata.encryption.iv, content))

NoMetadata == [encrypted |-> FALSE, encryption |-> NoEncryption]

EmptyVault(key) ==
    [pc |-> "empty", encryptionKey |-> key, original |-> << >>, data |-> << >>,
     metadata |-> NoMetadata, touched |-> FALSE, result |-> Returns(<< >>)]

VaultInit == vault \in {EmptyVault(key) : key \in EncryptionKeys}

\* LocalStorage while another part of the program is studied.
VaultIdle == vault = EmptyVault(NoKey)

\* save(attachment) returns success: the data file and the meta file are written.
VaultSave(content, iv) ==
    /\ vault.pc = "empty"
    /\ LET encrypted == encryptContent(vault.encryptionKey, iv, content) IN
       vault' = [vault EXCEPT !.pc = "saved", !.original = content,
                              !.data = encrypted.content,
                              !.metadata = [encrypted |-> encrypted.encryption.present,
                                            encryption |-> encrypted.encryption]]

\* Something else than the program rewrites the authTag of the meta file, once.
VaultRetag(authTag) ==
    /\ vault.pc = "saved"
    /\ ~vault.touched
    /\ vault.metadata.encrypted
    /\ authTag # vault.metadata.encryption.authTag
    /\ vault' = [vault EXCEPT !.metadata.encryption.authTag = authTag, !.touched = TRUE]

\* Something else than the program rewrites one byte of the data file, once.
VaultFlip(i, byte) ==
    /\ vault.pc = "saved"
    /\ ~vault.touched
    /\ i \in DOMAIN vault.data
    /\ byte # vault.data[i]
    /\ vault' = [vault EXCEPT !.data[i] = byte, !.touched = TRUE]

\* read(location): both files are read and the content is decrypted.
VaultRead ==
    /\ vault.pc = "saved"
    /\ vault' = [vault EXCEPT !.pc = "read",
                              !.result = decryptContent(vault.encryptionKey, vault.data,
                                                        vault.metadata)]

VaultNext ==
    \/ \E content \in Contents, iv \in Ivs : VaultSave(content, iv) /\ UNCHANGED vaultFrame
    \/ \E authTag \in Bytes : VaultRetag(authTag) /\ UNCHANGED vaultFrame
    \/ \E i \in 1..MaxContent, byte \in Bytes : VaultFlip(i, byte) /\ UNCHANGED vaultFrame
    \/ VaultRead /\ UNCHANGED vaultFrame

----------------------------------------------------------------------------
(* DurableQueue: the documents of its files *)

MaxQueued == 2

\* `${Date.now()}-${crypto.randomBytes(6).toString('hex')}`, as characters.
QueueIds == { << "1", "-", "b" >>, << "2", "-", "a" >>, << "1", "-", "a" >> }

\* The order of the UTF-16 code units of the characters of an id.
CodeUnit == [c \in {"-", "1", "2", "a", "b"} |->
                CASE c = "-" -> 45 [] c = "1" -> 49 [] c = "2" -> 50 [] c = "a" -> 97
                  [] c = "b" -> 98]

\* The comparison of Array.prototype.sort() without a comparator: by code units.
RECURSIVE Precedes(_, _)
Precedes(a, b) ==
    IF a = << >> \/ b = << >> THEN a = << >> /\ b # << >>
    ELSE IF Head(a) = Head(b) THEN Precedes(Tail(a), Tail(b))
    ELSE CodeUnit[Head(a)] < CodeUnit[Head(b)]

\* Faulty variant of sort: the order of readdir is kept.
unsorted(array) == array

RECURSIVE sort(_)
sort(array) ==
    IF array = << >> THEN << >>
    ELSE LET i == CHOOSE j \in DOMAIN array :
                      \A k \in DOMAIN array : k = j \/ ~Precedes(array[k], array[j])
             rest == [k \in 1..(Len(array) - 1) |-> IF k < i THEN array[k] ELSE array[k + 1]]
         IN  << array[i] >> \o sort(rest)

\* Values of the fields of a task: the ones of Values, null, and a Date object.
JsNull == [kind |-> "null", value |-> << >>]
DateObject(iso) == [kind |-> "date", value |-> iso]
Iso == << "T", "1" >>

\* { ...a, ...b }
Spread(a, b) == [f \in DOMAIN a \cup DOMAIN b |-> IF f \in DOMAIN b THEN b[f] ELSE a[f]]

\* JSON.parse(JSON.stringify(object)): a field that is undefined is left out, and a
\* Date is written as its toISOString().
toJSON(v) == IF v.kind = "date" THEN Str(v.value) ELSE v
Stringified(object) ==
    [f \in {g \in DOMAIN object : object[g].kind # "undefined"} |-> toJSON(object[f])]

\* What onData creates a task with: parsed (here its date and subject) and failedWebhooks.
TaskPayloads ==
    { [date |-> DateObject(Iso), subject |-> Str(<< "s", "1" >>), failedWebhooks |-> JsNull],
      [date |-> Str(Iso), subject |-> Undefined, failedWebhooks |-> JsNull] }

\* What the worker updates a task with.
TaskPatches ==
    { [failedWebhooks |-> List(<< "https://a" >>), lastError |-> Str(<< "e" >>)],
      [failedWebhooks |-> List(<< "https://b" >>), lastError |-> Undefined] }

NoCall == [op |-> "none", id |-> << >>, threw |-> FALSE]
Call(op, id, threw) == [op |-> op, id |-> id, threw |-> threw]

DurableInit ==
    durable = [files |-> << >>, given |-> << >>, patched |-> {}, usedIds |-> {},
               last |-> NoCall]

\* The DurableQueue while another part of the program is studied.
DurableIdle == DurableInit

\* create(taskPayload)
QueueCreate(id, taskPayload) ==
    /\ id \notin durable.usedIds
    /\ Cardinality(DOMAIN durable.files) < MaxQueued
    /\ LET payload == Spread([id |-> Str(id), createdAt |-> Str(Iso)], taskPayload) IN
       durable' = [files |-> With(durable.files, id, Stringified(payload)),
                   given |-> With(durable.given, id, taskPayload),
                   patched |-> durable.patched,
                   usedIds |-> durable.usedIds \cup {id},
                   last |-> Call("create", id, FALSE)]

\* get(id): the document of the file; readFile throws when there is no file.
QueueGet(id) == durable.files[id]

\* update(id, patch)
QueueUpdate(id, patch) ==
    IF id \notin DOMAIN durable.files
    THEN durable' = [durable EXCEPT !.last = Call("update", id, TRUE)]
    ELSE LET current == QueueGet(id)
             next == Spread(Spread(current, patch), [updatedAt |-> Str(Iso)])
         IN  durable' = [durable EXCEPT !.files = With(durable.files, id, Stringified(next)),
                                        !.given = With(durable.given, id,
                                                       Spread(durable.given[id], patch)),
                                        !.patched = durable.patched \cup {id},
                                        !.last = Call("update", id, FALSE)]

\* remove(id): ENOENT is swallowed.
QueueRemove(id) ==
    durable' = [durable EXCEPT !.files = Without(durable.files, id),
                               !.given = Without(durable.given, id),
                               !.patched = durable.patched \ {id},
                               !.last = Call("remove", id, FALSE)]

\* fs.readdir: the ids of the {id}.json files, in an order the file system chooses.
QueueListings ==
    LET ids == DOMAIN durable.files
    IN  {listing \in [1..Cardinality(ids) -> ids] :
            {listing[i] : i \in DOMAIN listing} = ids}

\* listIds() over that listing.
QueueListIds(listing) == sort(listing)

DurableNext ==
    \/ \E id \in QueueIds, taskPayload \in TaskPayloads :
          QueueCreate(id, taskPayload) /\ UNCHANGED durableFrame
    \/ \E id \in QueueIds, patch \in TaskPatches :
          QueueUpdate(id, patch) /\ UNCHANGED durableFrame
    \/ \E id \in QueueIds : QueueRemove(id) /\ UNCHANGED durableFrame

----------------------------------------------------------------------------
(* errorClassifier: serializeError and isRecoverableNetworkError *)

RECOVERABLE_CODES ==
    { "ECONNRESET", "EPIPE", "ETIMEDOUT", "ESOCKET", "ECONNABORTED", "EHOSTUNREACH",
      "ECONNREFUSED", "ENOTFOUND", "EAI_AGAIN", "ERR_STREAM_PREMATURE_CLOSE" }

\* The sources of the patterns; each of them has the flag i.
RECOVERABLE_MESSAGE_PATTERNS ==
    << "unknown protocol", "wrong version number", "tlsv1 alert", "read ETIMEDOUT",
       "socket hang up", "Client network socket disconnected" >>

\* Texts are sequences of pieces; a piece is a phrase, in one spelling.
LowerPiece ==
    [piece \in {"read ETIMEDOUT", "Client network socket disconnected", "Socket Hang Up",
                "SSL routines:"} |->
        CASE piece = "read ETIMEDOUT" -> "read etimedout"
          [] piece = "Client network socket disconnected"
                -> "client network socket disconnected"
          [] piece = "Socket Hang Up" -> "socket hang up"
          [] piece = "SSL routines:" -> "ssl routines:"]

lower(piece) == IF piece \in DOMAIN LowerPiece THEN LowerPiece[piece] ELSE piece

\* Faulty variant of test: the case of the letters counts.
testCase(pattern, message) == \E i \in DOMAIN message : message[i] = pattern

\* pattern.test(message), for a pattern with the flag i.
test(pattern, message) == \E i \in DOMAIN message : lower(message[i]) = lower(pattern)

\* Values that are thrown or rejected with.  `message` and `code` are the properties of
\* the value (a string, a number, or undefined); `rest` is what else an object holds.
ErrorOf(message, code) == [type |-> "Error", message |-> message, code |-> code,
                           rest |-> << >>]
ObjectOf(message, code, rest) == [type |-> "object", message |-> message, code |-> code,
                                  rest |-> rest]
StringOfText(text) == [type |-> "string", message |-> Undefined, code |-> Undefined,
                       rest |-> text]
NullValue == [type |-> "null", message |-> Undefined, code |-> Undefined, rest |-> << >>]
Number(n) == [kind |-> "number", value |-> << n >>]

ErrorLikes ==
    { ErrorOf(Str(<< "Cannot read properties of undefined" >>), Undefined),
      ErrorOf(Str(<< "SSL routines:", "unknown protocol" >>), Undefined),
      ErrorOf(Str(<< "Socket Hang Up" >>), Undefined),
      ErrorOf(Str(<< "read ECONNRESET" >>), Str(<< "ECONNRESET" >>)),
      ErrorOf(Str(<< "no such file" >>), Str(<< "ENOENT" >>)),
      ErrorOf(Str(<< "failed" >>), Number("104")),
      ObjectOf(Str(<< "read ETIMEDOUT" >>), Str(<< "ETIMEDOUT" >>), << >>),
      ObjectOf(Str(<< "failed" >>), Undefined, << "socket hang up" >>),
      ObjectOf(Str(<< >>), Undefined, << "tlsv1 alert" >>),
      ObjectOf(Undefined, Undefined, << "wrong version number" >>),
      ObjectOf(Undefined, Str(<< "EPIPE" >>), << >>),
      ObjectOf(Undefined, Undefined, << "failed" >>),
      StringOfText(<< "Client network socket disconnected" >>),
      StringOfText(<< "plain text failure" >>),
      NullValue }

\* typeof errorLike.code === 'string' ? errorLike.code : undefined
CodeOf(errorLike) == IF errorLike.code.kind = "string" THEN errorLike.code ELSE Undefined

\* JSON.stringify(errorLike) of an object: its message, if any, and the rest of it.
JsonText(errorLike) ==
    << "{" >> \o (IF errorLike.message.kind = "string" THEN errorLike.message.value
                  ELSE << >>)
             \o errorLike.rest \o << "}" >>

serializeError(errorLike) ==
    CASE errorLike.type = "Error" ->
            [message |-> errorLike.message, code |-> CodeOf(errorLike)]
      [] errorLike.type = "string" ->
            [message |-> Str(errorLike.rest), code |-> Undefined]
      [] errorLike.type = "object" ->
            [message |-> IF errorLike.message.kind = "string"
                            /\ errorLike.message.value # << >>
                         THEN errorLike.message
                         ELSE Str(JsonText(errorLike)),
             code |-> CodeOf(errorLike)]
      [] OTHER -> [message |-> Str(<< errorLike.type >>), code |-> Undefined]

isRecoverableNetworkError(errorLike) ==
    LET normalized == serializeError(errorLike)
        code == normalized.code
        message == IF normalized.message.kind = "string" THEN normalized.message.value
                   ELSE << >>
    IN  \/ code.kind = "string" /\ code.value # << >> /\ code.value[1] \in RECOVERABLE_CODES
        \/ \E i \in DOMAIN RECOVERABLE_MESSAGE_PATTERNS :
              test(RECOVERABLE_MESSAGE_PATTERNS[i], message)

----------------------------------------------------------------------------
(* gracefulShutdown and the handlers of the process events *)

MaxEvents == 3
MaxPending == 2

NotExited == [code |-> -1, by |-> "none"]
NoEvent == [name |-> "none", ignored |-> FALSE, error |-> NullValue]

ProcInit ==
    proc = [isShuttingDown |-> FALSE, listener |-> "listening", closeCalls |-> 0,
            polls |-> 0, checkTimer |-> FALSE, forceExitTimeout |-> FALSE,
            total |-> 0, exit |-> NotExited, events |-> 0, last |-> NoEvent]

\* The process while another part of the program is studied.
ProcIdle == ProcInit

\* Faulty variant of gracefulShutdown: the isShuttingDown flag is not tested.
shutdownAgain(p) ==
    [p EXCEPT !.isShuttingDown = TRUE, !.listener = IF @ = "closed" THEN @ ELSE "closing",
              !.closeCalls = @ + 1]

\* gracefulShutdown(reason), up to the return of server.close(callback)
gracefulShutdown(p) ==
    IF p.isShuttingDown THEN p
    ELSE [p EXCEPT !.isShuttingDown = TRUE, !.listener = "closing", !.closeCalls = @ + 1]

Event(p, name, ignored, errorLike) ==
    [p EXCEPT !.events = @ + 1,
              !.last = [name |-> name, ignored |-> ignored, error |-> errorLike]]

Alive == proc.exit = NotExited /\ proc.events < MaxEvents

\* process.on('SIGTERM') and process.on('SIGINT')
Signal(name) ==
    /\ Alive
    /\ proc' = Event(gracefulShutdown(proc), name, FALSE, NullValue)

\* process.on('uncaughtException') and process.on('unhandledRejection')
Uncaught(name, errorLike) ==
    /\ Alive
    /\ proc' = IF isRecoverableNetworkError(errorLike)
               THEN Event(proc, name, TRUE, errorLike)
               ELSE Event(gracefulShutdown(proc), name, FALSE, errorLike)

\* checkQueue()
checkQueue(p) ==
    IF p.total = 0
    THEN [p EXCEPT !.exit = [code |-> 0, by |-> "checkQueue"], !.checkTimer = FALSE]
    ELSE [p EXCEPT !.checkTimer = TRUE]

\* The callback of server.close: the listener has closed.
ServerClosed ==
    /\ proc.exit = NotExited
    /\ proc.listener = "closing"
    /\ proc' = checkQueue([proc EXCEPT !.listener = "closed", !.polls = @ + 1,
                                       !.forceExitTimeout = TRUE])

\* setTimeout(checkQueue, 1000) fires.
CheckQueueTimer ==
    /\ proc.exit = NotExited
    /\ proc.checkTimer
    /\ proc' = checkQueue(proc)

\* forceExitTimeout fires.
ForceExit ==
    /\ proc.exit = NotExited
    /\ proc.forceExitTimeout
    /\ proc' = [proc EXCEPT !.exit = [code |-> 1, by |-> "forceExitTimeout"]]

\* A message is accepted, or a deferred retry timer pushes its task again.
TaskPushed ==
    /\ proc.exit = NotExited
    /\ proc.total < MaxPending
    /\ proc.listener # "closed" \/ proc.total > 0
    /\ proc' = [proc EXCEPT !.total = @ + 1]

\* A worker calls cb for its task.
TaskFinished ==
    /\ proc.exit = NotExited
    /\ proc.total > 0
    /\ proc' = [proc EXCEPT !.total = @ - 1]

ProcNext ==
    \/ \E name \in {"SIGTERM", "SIGINT"} : Signal(name) /\ UNCHANGED procFrame
    \/ \E name \in {"uncaughtException", "unhandledRejection"}, errorLike \in ErrorLikes :
          Uncaught(name, errorLike) /\ UNCHANGED procFrame
    \/ ServerClosed /\ UNCHANGED procFrame
    \/ CheckQueueTimer /\ UNCHANGED procFrame
    \/ ForceExit /\ UNCHANGED procFrame
    \/ TaskPushed /\ UNCHANGED procFrame
    \/ TaskFinished /\ UNCHANGED procFrame

----------------------------------------------------------------------------
(* webhookQueue: the worker pool, with several Tasks and several sessions *)

(* The pipeline above follows one Task through every detail of its dispatch.  The *)
(* pool follows several Tasks at once and keeps of each one only what decides its  *)
(* place in the dispatcher: its file, its work item, its worker invocation and its *)
(* timer.  sendToWebhook, durableQueue.remove and durableQueue.update settle with  *)
(* an outcome the step chooses.                                                     *)

MaxPoolTasks == 3
MaxPoolSessions == 2

\* The value of WEBHOOK_CONCURRENCY the pool is studied with.
PoolConcurrency == 2

PoolIds == 1..MaxPoolTasks
PoolSessionIds == 1..MaxPoolSessions

NoTaskId == 0

PoolSessionIdle == [pc |-> "idle", taskId |-> NoTaskId]

NoAnswer == [reply |-> 0, cb |-> 0]

\* What earlier runs of the process may have left in the queue directory: complete
\* task files and files a crash has torn.
PoolLeftovers == UNION {[1..n -> {"task", "torn"}] : n \in 0..MaxPoolTasks}

EmptyPool(files) ==
    [phase |-> "booting", files |-> files, usedIds |-> DOMAIN files, queue |-> << >>,
     running |-> << >>, timers |-> << >>,
     sessions |-> [s \in PoolSessionIds |-> PoolSessionIdle], last |-> NoAnswer]

PoolInit == \E files \in PoolLeftovers : pool = EmptyPool(files)

\* The pool while another part of the program is studied.
PoolIdle == pool = EmptyPool(<< >>)

\* webhookQueue.getStats().total: the items waiting and the items a worker holds.
PoolTotal == Len(pool.queue) + Len(pool.running)

RemoveAt(seq, i) == SubSeq(seq, 1, i - 1) \o SubSeq(seq, i + 1, Len(seq))

\* cb(...): the work item is acknowledged.
cb(invocation) == [invocation EXCEPT !.acks = @ + 1]

\* return, or the end of the function.
returned(invocation) == [invocation EXCEPT !.pc = "returned"]

\* The queue library gives a worker's place to the next item when cb is called: an
\* acknowledged invocation leaves the pool, any other one stays.
Settle(running, i, invocation) ==
    IF invocation.acks > 0 THEN RemoveAt(running, i)
    ELSE [running EXCEPT ![i] = invocation]

\* Faulty variant of Load: a Task that no longer exists is skipped without cb().
LoadNoAck(files, task) ==
    LET invocation == [taskId |-> task.taskId, pc |-> "sending", retries |-> 0,
                       acks |-> 0]
    IN  IF task.taskId = NoTaskId THEN returned(cb(invocation))
        ELSE IF task.taskId \notin DOMAIN files THEN returned(invocation)
        ELSE IF files[task.taskId] = "torn" THEN returned(cb(invocation))
        ELSE invocation

\* The worker function up to attemptWebhook(): the task id is missing, or
\* durableQueue.get throws ENOENT, or it throws another error (JSON.parse of a torn
\* file), or the Task is loaded.
Load(files, task) ==
    LET invocation == [taskId |-> task.taskId, pc |-> "sending", retries |-> 0,
                       acks |-> 0]
    IN  IF task.taskId = NoTaskId THEN returned(cb(invocation))
        ELSE IF task.taskId \notin DOMAIN files THEN returned(cb(invocation))
        ELSE IF files[task.taskId] = "torn" THEN returned(cb(invocation))
        ELSE invocation

\* Faulty variant of PoolStart: the pool starts a worker whatever the number running.
PoolStartUnbounded ==
    /\ pool.phase # "booting"
    /\ pool.queue # << >>
    /\ Len(pool.running) < MaxPoolTasks
    /\ LET invocation == Load(pool.files, Head(pool.queue))
           i == Len(pool.running) + 1
       IN  pool' = [pool EXCEPT
              !.queue = Tail(pool.queue),
              !.running = Settle(Append(pool.running, invocation), i, invocation),
              !.last = [reply |-> 0, cb |-> invocation.acks]]

\* The pool gives the next work item to a worker: { concurrent: WEBHOOK_CONCURRENCY }.
PoolStart ==
    /\ pool.phase # "booting"
    /\ pool.queue # << >>
    /\ Len(pool.running) < PoolConcurrency
    /\ LET invocation == Load(pool.files, Head(pool.queue))
           i == Len(pool.running) + 1
       IN  pool' = [pool EXCEPT
              !.queue = Tail(pool.queue),
              !.running = Settle(Append(pool.running, invocation), i, invocation),
              !.last = [reply |-> 0, cb |-> invocation.acks]]

\* The catch of attemptWebhook: retries++, then the backoff timer or the last resort.
PoolCatch(invocation) ==
    LET retries == invocation.retries + 1 IN
    [invocation EXCEPT !.retries = retries,
                       !.pc = IF retries < maxRetries THEN "backoff" ELSE "persist"]

\* sendToWebhook settles: it returns, or it throws.
PoolSent(i, ok) ==
    /\ i \in DOMAIN pool.running
    /\ pool.running[i].pc = "sending"
    /\ pool' = [pool EXCEPT
          !.running[i] = IF ok THEN [@ EXCEPT !.pc = "removing"] ELSE PoolCatch(@),
          !.last = NoAnswer]

\* durableQueue.remove settles: cb(null, result), or remove threw and the catch of
\* attemptWebhook takes it for a failed attempt.
PoolRemoved(i, ok) ==
    /\ i \in DOMAIN pool.running
    /\ pool.running[i].pc = "removing"
    /\ LET invocation == IF ok THEN returned(cb(pool.running[i]))
                         ELSE PoolCatch(pool.running[i])
       IN  pool' = [pool EXCEPT
              !.files = IF ok THEN Without(pool.files, pool.running[i].taskId)
                        ELSE pool.files,
              !.running = Settle(pool.running, i, invocation),
              !.last = [reply |-> 0, cb |-> invocation.acks]]

\* The backoff timer of an in-worker retry fires: attemptWebhook() again.  cb has not
\* been called meanwhile.
PoolBackoff(i) ==
    /\ i \in DOMAIN pool.running
    /\ pool.running[i].pc = "backoff"
    /\ pool' = [pool EXCEPT !.running[i].pc = "sending", !.last = NoAnswer]

\* Retries exhausted: durableQueue.update settles (a failure is logged only), the
\* deferred re-enqueue timer is armed, cb(null, { queuedForRetry: true }).
PoolPersisted(i, outcome) ==
    /\ i \in DOMAIN pool.running
    /\ pool.running[i].pc = "persist"
    /\ LET id == pool.running[i].taskId
           invocation == returned(cb(pool.running[i]))
       IN  /\ outcome # "error" => id \in DOMAIN pool.files /\ pool.files[id] = "task"
           /\ pool' = [pool EXCEPT
                 !.files = IF outcome = "torn" THEN With(pool.files, id, "torn")
                           ELSE pool.files,
                 !.timers = Append(pool.timers, id),
                 !.running = Settle(pool.running, i, invocation),
                 !.last = [reply |-> 0, cb |-> invocation.acks]]

\* Faulty variant of PoolTimerFire: the timer is an interval and stays armed.
PoolTimerRepeats ==
    /\ pool.timers # << >>
    /\ Len(pool.queue) < MaxPoolTasks
    /\ pool' = [pool EXCEPT !.queue = Append(pool.queue, [taskId |-> Head(pool.timers)]),
                            !.last = NoAnswer]

\* A deferred re-enqueue timer fires: webhookQueue.push({ taskId }).
PoolTimerFire ==
    /\ pool.timers # << >>
    /\ pool' = [pool EXCEPT !.queue = Append(pool.queue, [taskId |-> Head(pool.timers)]),
                            !.timers = Tail(pool.timers),
                            !.last = NoAnswer]

\* replayDurableQueue: every id of listIds() is pushed.
PoolReplay ==
    /\ pool.phase = "booting"
    /\ LET taskIds == SortedSeq(DOMAIN pool.files) IN
       pool' = [pool EXCEPT
          !.phase = "replayed",
          !.queue = pool.queue \o [k \in DOMAIN taskIds |-> [taskId |-> taskIds[k]]],
          !.last = NoAnswer]

\* server.listen
PoolListen ==
    /\ pool.phase = "replayed"
    /\ pool' = [pool EXCEPT !.phase = "listening", !.last = NoAnswer]

\* onData: the queue-full check, then parseEmail(stream) is awaited.
PoolOnData(s) ==
    /\ pool.phase = "listening"
    /\ pool.sessions[s].pc = "idle"
    /\ pool' = IF PoolTotal >= MAX_QUEUE_SIZE
               THEN [pool EXCEPT !.last = [reply |-> 451, cb |-> 0]]
               ELSE [pool EXCEPT !.sessions[s].pc = "parsing", !.last = NoAnswer]

PoolFreshId ==
    CHOOSE i \in PoolIds \ pool.usedIds : \A j \in PoolIds \ pool.usedIds : i <= j

\* parseEmail settles and the policy checks run: parseEmail rejected (451), the relay
\* is not trusted or the authentication results fail the policy (550), or
\* durableQueue.create is called and awaited.
PoolParsed(s, outcome) ==
    /\ pool.sessions[s].pc = "parsing"
    /\ IF outcome = "parse"
       THEN pool' = [pool EXCEPT !.sessions[s] = PoolSessionIdle,
                                 !.last = [reply |-> 451, cb |-> 0]]
       ELSE IF outcome \in {"relay", "auth"}
       THEN pool' = [pool EXCEPT !.sessions[s] = PoolSessionIdle,
                                 !.last = [reply |-> 550, cb |-> 0]]
       ELSE /\ pool.usedIds # PoolIds
            /\ pool' = [pool EXCEPT
                  !.usedIds = pool.usedIds \cup {PoolFreshId},
                  !.sessions[s] = [pc |-> "creating", taskId |-> PoolFreshId],
                  !.last = NoAnswer]

\* durableQueue.create settles: the id is pushed and DATA is answered 250; or
\* fs.writeFile failed, before the file was opened ("open") or after ("write"), and the
\* catch answers 451.
PoolCreated(s, outcome) ==
    /\ pool.sessions[s].pc = "creating"
    /\ LET id == pool.sessions[s].taskId IN
       pool' = [pool EXCEPT
          !.files = IF outcome = "ok" THEN With(pool.files, id, "task")
                    ELSE IF outcome = "write" THEN With(pool.files, id, "torn")
                    ELSE pool.files,
          !.queue = IF outcome = "ok" THEN Append(pool.queue, [taskId |-> id])
                    ELSE pool.queue,
          !.sessions[s] = PoolSessionIdle,
          !.last = [reply |-> IF outcome = "ok" THEN 250 ELSE 451, cb |-> 0]]

\* A task file is removed from outside the process.
PoolExternalRemove(id) ==
    /\ id \in DOMAIN pool.files
    /\ pool' = [pool EXCEPT !.files = Without(pool.files, id), !.last = NoAnswer]

PoolNext ==
    \/ PoolReplay /\ UNCHANGED poolFrame
    \/ PoolListen /\ UNCHANGED poolFrame
    \/ PoolStart /\ UNCHANGED poolFrame
    \/ \E i \in 1..PoolConcurrency, ok \in BOOLEAN : PoolSent(i, ok) /\ UNCHANGED poolFrame
    \/ \E i \in 1..PoolConcurrency, ok \in BOOLEAN :
          PoolRemoved(i, ok) /\ UNCHANGED poolFrame
    \/ \E i \in 1..PoolConcurrency : PoolBackoff(i) /\ UNCHANGED poolFrame
    \/ \E i \in 1..PoolConcurrency, outcome \in {"ok", "error", "torn"} :
          PoolPersisted(i, outcome) /\ UNCHANGED poolFrame
    \/ PoolTimerFire /\ UNCHANGED poolFrame
    \/ \E s \in PoolSessionIds : PoolOnData(s) /\ UNCHANGED poolFrame
    \/ \E s \in PoolSessionIds, outcome \in {"parsed", "parse", "relay", "auth"} :
          PoolParsed(s, outcome) /\ UNCHANGED poolFrame
    \/ \E s \in PoolSessionIds, outcome \in {"ok", "open", "write"} :
          PoolCreated(s, outcome) /\ UNCHANGED poolFrame
    \/ \E id \in PoolIds : PoolExternalRemove(id) /\ UNCHANGED poolFrame

----------------------------------------------------------------------------
(* Specifications *)

\* The connection policy: onConnect and the rate limiter.
ConnectInit ==
    /\ Init
    /\ config = CfgA
    /\ PolicyInit
    /\ smtpConfig \in {c \in SmtpConfigs : c.REQUIRED_AUTH_RESULTS = {}}
    /\ RouterInit
    /\ routerConfig = DefaultOnly
    /\ StorageIdle
    /\ VaultIdle
    /\ DurableIdle
    /\ ProcIdle
    /\ PoolIdle

ConnectNext ==
    \/ \E a \in RemoteAddresses : OnConnect(a) /\ UNCHANGED policyFrame
    \/ Tick /\ UNCHANGED policyFrame

ConnectSpec == ConnectInit /\ [][ConnectNext]_allVars

\* The message policy: the checks of onData.
DataPolicyInit ==
    /\ Init
    /\ config = CfgA
    /\ PolicyInit
    /\ smtpConfig \in {c \in SmtpConfigs : /\ c.ALLOWED_SMTP_CLIENTS = {}
                                          /\ c.SMTP_RATE_LIMIT_WINDOW_MS = 1
                                          /\ c.SMTP_RATE_LIMIT_MAX_CONNECTIONS = 1}
    /\ RouterInit
    /\ routerConfig = DefaultOnly
    /\ StorageIdle
    /\ VaultIdle
    /\ DurableIdle
    /\ ProcIdle
    /\ PoolIdle

DataPolicyNext ==
    \E a \in RemoteAddresses, header \in AuthHeaders :
        OnDataPolicy(a, header) /\ UNCHANGED policyFrame

DataPolicySpec == DataPolicyInit /\ [][DataPolicyNext]_allVars

\* The delivery pipeline, with the policy left alone.
SpecInit ==
    /\ Init
    /\ PolicyInit
    /\ smtpConfig = OpenPolicy
    /\ RouterInit
    /\ routerConfig = DefaultOnly
    /\ StorageIdle
    /\ VaultIdle
    /\ DurableIdle
    /\ ProcIdle
    /\ PoolIdle

\* Routing and webhook requests.
RouterSpecInit ==
    /\ Init
    /\ config = CfgA
    /\ PolicyInit
    /\ smtpConfig = OpenPolicy
    /\ RouterInit
    /\ StorageIdle
    /\ VaultIdle
    /\ DurableIdle
    /\ ProcIdle
    /\ PoolIdle

RouterSpec == RouterSpecInit /\ [][RouterNext]_allVars

\* The attachment storage tier.
StorageSpecInit ==
    /\ Init
    /\ config = CfgA
    /\ PolicyInit
    /\ smtpConfig = OpenPolicy
    /\ RouterInit
    /\ routerConfig = DefaultOnly
    /\ StorageInit
    /\ VaultIdle
    /\ DurableIdle
    /\ ProcIdle
    /\ PoolIdle

StorageSpec == StorageSpecInit /\ [][StorageNext]_allVars

\* uploadToS3 and parseEmail.
UploadSpecInit ==
    /\ Init
    /\ config = CfgA
    /\ PolicyInit
    /\ smtpConfig = OpenPolicy
    /\ RouterInit
    /\ routerConfig = DefaultOnly
    /\ StorageInit
    /\ VaultIdle
    /\ DurableIdle
    /\ ProcIdle
    /\ PoolIdle

UploadSpec == UploadSpecInit /\ [][UploadNext]_allVars

Spec == SpecInit /\ [][Next]_allVars

\* LocalStorage.save and LocalStorage.read.
VaultSpecInit ==
    /\ Init
    /\ config = CfgA
    /\ PolicyInit
    /\ smtpConfig = OpenPolicy
    /\ RouterInit
    /\ routerConfig = DefaultOnly
    /\ StorageIdle
    /\ VaultInit
    /\ DurableIdle
    /\ ProcIdle
    /\ PoolIdle

VaultSpec == VaultSpecInit /\ [][VaultNext]_allVars

\* The DurableQueue.
DurableSpecInit ==
    /\ Init
    /\ config = CfgA
    /\ PolicyInit
    /\ smtpConfig = OpenPolicy
    /\ RouterInit
    /\ routerConfig = DefaultOnly
    /\ StorageIdle
    /\ VaultIdle
    /\ DurableInit
    /\ ProcIdle
    /\ PoolIdle

DurableSpec == DurableSpecInit /\ [][DurableNext]_allVars

\* gracefulShutdown and the handlers of the process events.
ProcSpecInit ==
    /\ Init
    /\ config = CfgA
    /\ PolicyInit
    /\ smtpConfig = OpenPolicy
    /\ RouterInit
    /\ routerConfig = DefaultOnly
    /\ StorageIdle
    /\ VaultIdle
    /\ DurableIdle
    /\ ProcInit
    /\ PoolIdle

ProcSpec == ProcSpecInit /\ [][ProcNext]_allVars

PoolSpecInit ==
    /\ Init
    /\ config = CfgA
    /\ PolicyInit
    /\ smtpConfig = OpenPolicy
    /\ RouterInit
    /\ routerConfig = DefaultOnly
    /\ StorageIdle
    /\ VaultIdle
    /\ DurableIdle
    /\ ProcIdle
    /\ PoolInit

PoolSpec == PoolSpecInit /\ [][PoolNext]_allVars

----------------------------------------------------------------------------
(* Properties *)

Range(seq) == {seq[i] : i \in 1..Len(seq)}
Targets(matchedWebhooks) == {matchedWebhooks[i].webhook : i \in 1..Len(matchedWebhooks)}
Routed(w) == route(config, workers[w].queueItem.parsed)

\* the step in which worker w calls durableQueue.remove and cb(null, result)
RemoveCalled(w) ==
    /\ workers[w].pc = "removing"
    /\ workers'[w].pc = "idle"
    /\ lastAck' = "cb(null, result)"

\* the attempt of worker w has ended with at least one 2xx and at least one failure
PartialSuccess(w) == workers[w].pc = "removing" /\ workers[w].errors # << >>

\* the step in which worker w ends a cycle whose in-worker attempts are exhausted
CycleEnds(w) ==
    /\ workers[w].pc \in {"persist", "writing"}
    /\ workers'[w].pc = "idle"
    /\ lastAck' = "cb(null, queuedForRetry)"

\* the step in which a worker takes the next work item and finds no Task for its id
PicksUpMissing ==
    /\ pending # << >>
    /\ pending' = Tail(pending)
    /\ phase' = phase
    /\ Head(pending) \notin DOMAIN disk

\* C1: the worker calls durableQueue.remove for a Task only if every target selected
\* for the attempt returned 2xx, and an attempt in which every selected target returned
\* 2xx ends with the removal; a Task with a target that has not succeeded is not removed.
C1_RemoveIffAllSucceeded ==
    [][\A w \in Slots :
          /\ RemoveCalled(w) => workers[w].errors = << >>
          /\ (workers[w].pc = "posting" /\ workers'[w].pc \in {"backoff", "persist"})
                => (workers[w].errors # << >> \/ received' = received)
      ]_vars

\* C2: after a partial success the worker persists failedWebhooks = the failed targets,
\* leaves the Task in the durable queue and arms a delayed re-enqueue of its id.
C2_PartialSuccessKeepsTask ==
    [][\A w \in Slots :
          (PartialSuccess(w) /\ workers'[w].pc = "idle" /\ phase' = phase) =>
              LET id == workers[w].taskId IN
              /\ id \in DOMAIN disk'
              /\ disk'[id].failedWebhooks = Arr(workers[w].errors)
              /\ \E i \in 1..Len(timers') : timers'[i].taskId = id
      ]_vars

\* C3: DATA is answered 250 only in a step after which the Task created for the message
\* is completely written with the parsed email of the session, and the id is pushed to
\* the dispatcher in that step and not earlier (never while create is in progress).
C3_AcceptedOnlyAfterCreate ==
    [][/\ lastReply'.code = 250 =>
             \E s \in SessionIds :
                /\ lastReply'.session = s
                /\ sessions[s].pc = "creating"
                /\ LET id == sessions[s].taskId IN
                   /\ id \in DOMAIN disk'
                   /\ disk'[id] = NewTask(sessions[s].email)
                   /\ id \notin Range(pending)
                   /\ pending' = Append(pending, id)
       /\ \A s \in SessionIds :
             sessions'[s].pc = "creating" =>
                /\ sessions'[s].taskId \notin Range(pending')
                /\ \A w \in Slots : workers'[w].taskId # sessions'[s].taskId
      ]_vars

C3_Witness ==
    /\ lastReply.code = 250
    /\ pending # << >>
    /\ pending[Len(pending)] \in DOMAIN disk
    /\ disk[pending[Len(pending)]].complete

\* C4: at the replay of the next start every Task that was written to the durable queue
\* and not removed is still there as written, and its id is pushed exactly once (the
\* listener starts only afterwards).
C4_ReplayRestoresEveryTask ==
    [][(phase = "booting" /\ phase' = "replayed") =>
          \A id \in DOMAIN lastWritten :
             /\ id \in DOMAIN disk'
             /\ disk'[id] = lastWritten[id]
             /\ Cardinality({i \in 1..Len(pending') : pending'[i] = id}) = 1
      ]_vars

\* C5: when the process starts again after a crash, every file of the durable queue
\* holds a complete Task, equal to what create or the last completed update wrote; an
\* interrupted create leaves no file.
C5_NoPartialTaskAfterCrash ==
    phase = "booting" =>
        \A id \in DOMAIN disk :
           /\ disk[id].complete
           /\ id \in DOMAIN lastWritten
           /\ disk[id] = lastWritten[id]

\* C6 (safety part): when the dispatcher removes a Task that carried no failedWebhooks
\* restriction, every webhook the router selects for its email has received a
\* successful POST of it.
C6_RemovedOnlyWhenAllRoutedReceived ==
    \A w \in Slots :
        (workers[w].pc = "removing" /\ ~workers[w].queueItem.failedWebhooks.arr) =>
            Targets(Routed(w)) \subseteq received[workers[w].taskId]

C9_EmptyRouteKeepsTask ==
    [][\A w \in Slots :
          (workers'[w] # workers[w] /\ phase' = phase) =>
             /\ (workers'[w].pc # "idle"
                   /\ route(config, workers'[w].queueItem.parsed) = << >>) =>
                   /\ workers'[w].pc \in {"backoff", "persist", "writing"}
                   /\ workers'[w].lastErr = NoEndpointsMessage
                   /\ received'[workers'[w].taskId] = {}
             /\ (workers[w].pc # "idle" /\ workers[w].taskId \in DOMAIN disk
                   /\ Routed(w) = << >>) =>
                   /\ workers[w].taskId \in DOMAIN disk'
                   /\ received' = received
      ]_vars

C9_Witness ==
    \E w \in Slots :
        /\ workers[w].pc = "persist"
        /\ Routed(w) = << >>
        /\ workers[w].lastErr = NoEndpointsMessage
        /\ workers[w].taskId \in DOMAIN disk

\* C10: a worker that picks up an id whose Task is not in the durable queue calls cb()
\* (no error), makes no POST and writes nothing to the durable queue.
C10_MissingTaskIsAcked ==
    [][PicksUpMissing =>
          /\ lastAck' = "cb()"
          /\ disk' = disk
          /\ lastWritten' = lastWritten
          /\ received' = received
          /\ workers' = workers
          /\ timers' = timers
      ]_vars

C10_Witness ==
    /\ lastAck = "cb()"
    /\ \A w \in Slots : workers[w].pc = "idle"

\* C11: when the Task's failedWebhooks is set and no routed target is in it, the attempt
\* makes no POST and returns the result with the note "No matching webhooks found for
\* retry"; the worker then removes the Task and calls cb(null, result).
FilterLeavesNothing(wr) ==
    /\ wr.pc # "idle"
    /\ wr.failedWebhooks.arr
    /\ route(config, wr.queueItem.parsed) # << >>
    /\ Targets(route(config, wr.queueItem.parsed)) \cap Range(wr.failedWebhooks.items) = {}

DataArrives(s) ==
    /\ sessions[s].pc = "idle"
    /\ phase' = phase
    /\ \/ sessions'[s].pc = "parsing"
       \/ lastReply'.session = s

C12_QueueFullRejects ==
    [][\A s \in SessionIds :
          DataArrives(s) =>
             IF Len(pending) + Cardinality({w \in Slots : workers[w].pc # "idle"})
                   >= MAX_QUEUE_SIZE
             THEN /\ lastReply' = Reply(s, 451, "Server busy, please retry later")
                  /\ sessions'[s].pc = "idle"
                  /\ disk' = disk
                  /\ usedIds' = usedIds
                  /\ pending' = pending
                  /\ workers' = workers
             ELSE /\ sessions'[s].pc = "parsing"
                  /\ lastReply' = NoReply
      ]_vars

C12_Witness ==
    /\ lastReply.code = 451
    /\ lastReply.message = "Server busy, please retry later"
    /\ Len(pending) + Cardinality({w \in Slots : workers[w].pc # "idle"}) >= MAX_QUEUE_SIZE

\* Hits of the key of the latest isAllowed call that lie within the last windowMs,
\* the call itself included.
HitsInWindow ==
    LET latest == calls[Len(calls)]
    IN  {i \in DOMAIN calls :
            /\ calls[i].key = latest.key
            /\ now - calls[i].at < smtpConfig.SMTP_RATE_LIMIT_WINDOW_MS}

\* C13: isAllowed admits a call iff the hits of its key within the last windowMs,
\* counting the call, are at most maxHits (the maxHits-th hit is admitted, the next one
\* refused, and the key is admitted again once the earlier hits have left the window).
C13_AdmitsIffWithinCap ==
    (lastConnect.called /\ lastConnect.code # 550) =>
        /\ calls # << >>
        /\ calls[Len(calls)] = [key |-> normalizeIp(lastConnect.remoteAddress), at |-> now]
        /\ lastConnect.code = 0 <=>
              Cardinality(HitsInWindow) <= smtpConfig.SMTP_RATE_LIMIT_MAX_CONNECTIONS
        /\ lastConnect.code # 0 => lastConnect.code = 421

C13_Witness ==
    /\ lastConnect.called
    /\ lastConnect.code = 0
    /\ calls # << >>
    /\ Cardinality({i \in DOMAIN calls : calls[i].key = calls[Len(calls)].key})
          > smtpConfig.SMTP_RATE_LIMIT_MAX_CONNECTIONS + 1
    /\ Cardinality(HitsInWindow) = smtpConfig.SMTP_RATE_LIMIT_MAX_CONNECTIONS

\* C14: onConnect normalizes the remote IP and then answers 550 if ALLOWED_SMTP_CLIENTS
\* is non-empty and lacks the IP, else 550 if REQUIRE_TRUSTED_RELAY is set and
\* TRUSTED_RELAY_IPS lacks the IP, else 421 if the rate limiter denies the IP, else
\* accepts; a connection answered 550 records no rate-limiter hit.
C14_ConnectChecksInOrder ==
    [][lastConnect'.called =>
          LET ip == normalizeIp(lastConnect'.remoteAddress)
              hits == {i \in DOMAIN calls' :
                          /\ calls'[i].key = ip
                          /\ now - calls'[i].at < smtpConfig.SMTP_RATE_LIMIT_WINDOW_MS}
          IN  IF smtpConfig.ALLOWED_SMTP_CLIENTS # {}
                 /\ ip \notin smtpConfig.ALLOWED_SMTP_CLIENTS
              THEN /\ lastConnect'.code = 550
                   /\ lastConnect'.message = "SMTP client not allowed"
                   /\ calls' = calls
                   /\ hitsByKey' = hitsByKey
              ELSE IF smtpConfig.REQUIRE_TRUSTED_RELAY
                      /\ ip \notin smtpConfig.TRUSTED_RELAY_IPS
              THEN /\ lastConnect'.code = 550
                   /\ lastConnect'.message = "SMTP relay is not trusted"
                   /\ calls' = calls
                   /\ hitsByKey' = hitsByKey
              ELSE /\ calls' = Append(calls, [key |-> ip, at |-> now])
                   /\ IF Cardinality(hits) > smtpConfig.SMTP_RATE_LIMIT_MAX_CONNECTIONS
                      THEN lastConnect'.code = 421
                      ELSE lastConnect'.code = 0
      ]_allVars

C14_Witness ==
    /\ lastConnect.called
    /\ lastConnect.code = 550
    /\ lastConnect.message = "SMTP relay is not trusted"
    /\ smtpConfig.ALLOWED_SMTP_CLIENTS # {}
    /\ lastConnect.remoteAddress # normalizeIp(lastConnect.remoteAddress)

\* C15: with REQUIRED_AUTH_RESULTS non-empty a message is accepted at DATA only if its
\* remote IP is in TRUSTED_RELAY_IPS and its Authentication-Results value contains every
\* required token as a case-insensitive substring; otherwise it is answered 550 and
\* durableQueue.create is not reached.
ContainsIgnoringCase(text, token) == includes(toLowerCase(text), toLowerCase(token))

C15_AuthResultsRequired ==
    (lastData.called /\ smtpConfig.REQUIRED_AUTH_RESULTS # {}) =>
        LET text == getAuthenticationResultsHeader(lastData.header)
            passes ==
                /\ normalizeIp(lastData.remoteAddress) \in smtpConfig.TRUSTED_RELAY_IPS
                /\ \A token \in smtpConfig.REQUIRED_AUTH_RESULTS :
                      ContainsIgnoringCase(text, token)
        IN  /\ (lastData.code = 0 /\ lastData.created) => passes
            /\ ~passes => (lastData.code = 550 /\ ~lastData.created)
            /\ lastData.code \in {0, 550}
            /\ lastData.created => lastData.code = 0

C15_Witness ==
    /\ lastData.called
    /\ lastData.code = 0
    /\ lastData.created
    /\ smtpConfig.REQUIRED_AUTH_RESULTS = {SpfPass, DmarcPass}
    /\ lastData.header = StringHeader(SpfPassMixed \o << ";", " " >> \o DmarcPass)
    /\ lastData.remoteAddress # normalizeIp(lastData.remoteAddress)

\* The priority a rule declares, 999 when it declares none.
DeclaredPriority(rule) == IF "priority" \in DOMAIN rule THEN rule.priority ELSE 999

\* The rules in ascending declared priority, rules of equal priority in configuration
\* order.
RECURSIVE SortedByPriority(_)
SortedByPriority(rules) ==
    IF rules = << >> THEN << >>
    ELSE LET first == CHOOSE i \in DOMAIN rules :
                         /\ \A j \in DOMAIN rules :
                               DeclaredPriority(rules[i]) <= DeclaredPriority(rules[j])
                         /\ \A j \in 1..(i - 1) :
                               DeclaredPriority(rules[j]) > DeclaredPriority(rules[i])
         IN  << rules[first] >>
             \o SortedByPriority(SubSeq(rules, 1, first - 1)
                                 \o SubSeq(rules, first + 1, Len(rules)))

\* The matching rules of a list, up to and including the first one with stopProcessing.
RECURSIVE MatchesUntilStop(_, _)
MatchesUntilStop(rules, email) ==
    IF rules = << >> THEN << >>
    ELSE IF ~evaluateRule(Head(rules), email) THEN MatchesUntilStop(Tail(rules), email)
    ELSE IF Head(rules).stopProcessing THEN << Head(rules) >>
    ELSE << Head(rules) >> \o MatchesUntilStop(Tail(rules), email)

TargetOf(rule) == [webhook |-> rule.webhook, ruleName |-> rule.name]

\* C16: route() returns the matching rules in priority-sorted order, cut off right after
\* the first matching rule with stopProcessing; the default target (ruleName default,
\* priority 9999) is in the result iff no rule matched and a default URL is configured,
\* and then it is the only element.
C16_RouteIsSortedMatchesUntilStop ==
    decision.called =>
        LET matches == MatchesUntilStop(SortedByPriority(routerConfig.WEBHOOK_RULES),
                                        decision.email)
            result == decision.result
        IN  IF matches = << >> /\ routerConfig.WEBHOOK_URL # ""
            THEN result = << [webhook |-> routerConfig.WEBHOOK_URL, ruleName |-> "default",
                              priority |-> 9999] >>
            ELSE /\ Len(result) = Len(matches)
                 /\ \A i \in DOMAIN result :
                       /\ [webhook |-> result[i].webhook, ruleName |-> result[i].ruleName]
                             = TargetOf(matches[i])
                       /\ result[i].ruleName # "default"

\* C17: the rule list of the router is in ascending priority for every integer priority
\* (0 included), a rule without a priority counts as 999, and rules of equal priority
\* keep their configuration order.
C17_RulesSortedByDeclaredPriority ==
    decision.called =>
        parseRules(routerConfig.WEBHOOK_RULES) = SortedByPriority(routerConfig.WEBHOOK_RULES)

HttpUrls == {"http://d"}

\* C18: unless ALLOW_INSECURE_WEBHOOK_HTTP is set, route() returns no target whose URL
\* has scheme http: such rule targets are dropped, and a plain-http default URL leaves
\* the decision empty.
C18_NoInsecureTargetUnlessAllowed ==
    (decision.called /\ ~routerConfig.ALLOW_INSECURE_WEBHOOK_HTTP) =>
        \A i \in DOMAIN decision.result : decision.result[i].webhook \notin HttpUrls

\* A condition matches the value of a field: a list matches iff one of its elements does.
MatchesSomeElement(condition, value) ==
    IF value.kind = "array"
    THEN \E i \in DOMAIN value.value : evaluateCondition(condition, Str(value.value[i]))
    ELSE evaluateCondition(condition, value)

\* C19: a rule matches an email iff every one of its conditions matches (a rule without
\* conditions always matches); for a list value a condition matches iff it matches at
\* least one element, whether the condition is exact, a wildcard or a regex.
C19_RuleMatchesIffAllConditionsMatch ==
    decision.called =>
        \A i \in DOMAIN routerConfig.WEBHOOK_RULES :
            LET rule == routerConfig.WEBHOOK_RULES[i]
            IN  evaluateRule(rule, decision.email) <=>
                   \A field \in DOMAIN rule.conditions :
                       MatchesSomeElement(rule.conditions[field],
                                          EmailValue(decision.email, field))

SignatureHeaders == {"X-Inbound-Email-Timestamp", "X-Inbound-Email-Signature",
                     "X-Inbound-Email-Signature-Version"}

\* "sha256=" followed by the hex HMAC-SHA256, keyed by secret, of timestamp "." payload
SignatureOf(secret, timestamp, payload) ==
    [prefix |-> "sha256=", key |-> secret, message |-> << timestamp, ".", payload >>]

\* C20: with WEBHOOK_SECRET configured every webhook POST carries the timestamp, the
\* signature and the signature version v1, the signature being sha256= and the HMAC of
\* timestamp, dot and payload; without a secret none of the three headers is sent.
C20_PostsAreSigned ==
    lastPost.sent =>
        IF routerConfig.WEBHOOK_SECRET # ""
        THEN /\ SignatureHeaders \subseteq DOMAIN lastPost.headers
             /\ lastPost.headers["X-Inbound-Email-Signature-Version"] = "v1"
             /\ lastPost.headers["X-Inbound-Email-Signature"]
                   = SignatureOf(routerConfig.WEBHOOK_SECRET,
                                 lastPost.headers["X-Inbound-Email-Timestamp"],
                                 lastPost.data)
        ELSE SignatureHeaders \cap DOMAIN lastPost.headers = {}

\* The retry items that refer to the file of an uploadToS3 call.
ItemsOfCall(call) == {i \in DOMAIN retryQueue : retryQueue[i].localPath = LocalPath(call)}

\* C21: an attachment larger than MAX_FILE_SIZE is answered with storageType skipped and
\* location null, without a primary upload, a local save or a retry item; an attachment
\* of exactly MAX_FILE_SIZE is not skipped, and with the primary store configured its
\* upload is tried and, when the upload succeeds, the result is storageType s3.
C21_OversizeSkippedOnly ==
    \A call \in UploadIds :
        LET upload == uploads[call] IN
        upload.pc # "none" =>
            /\ upload.attachment.size > MAX_FILE_SIZE =>
                  /\ upload.pc = "done" /\ ~upload.threw
                  /\ upload.storageType = "skipped" /\ upload.location = NoLocation
                  /\ upload.primary = "none" /\ ~upload.saved /\ ~upload.queued
                  /\ LocalPath(call) \notin DOMAIN localFiles
                  /\ ItemsOfCall(call) = {}
            /\ upload.attachment.size = MAX_FILE_SIZE =>
                  /\ upload.storageType # "skipped"
                  /\ isS3Configured => upload.pc = "primary" \/ upload.primary # "none"
                  /\ isS3Configured /\ upload.primary = "ok" =>
                        /\ upload.pc = "done" /\ ~upload.threw
                        /\ upload.storageType = "s3" /\ upload.location # NoLocation

C21_Witness ==
    \E skipped, stored \in UploadIds :
        /\ uploads[skipped].pc = "done"
        /\ uploads[skipped].attachment.size = MAX_FILE_SIZE + 1
        /\ uploads[skipped].storageType = "skipped"
        /\ uploads[stored].pc = "done"
        /\ uploads[stored].attachment.size = MAX_FILE_SIZE
        /\ uploads[stored].storageType = "s3"

\* The position of the entry of attachment i in attachmentInfo: the attachments
\* before it, and itself, that were not skipped.
KeptUpTo(i) ==
    Cardinality({j \in 1..i : uploads[parseCall.promises[j]].storageType # "skipped"})

\* C22: a failure while storing one attachment (uploadToS3 rejects because the upload
\* and the local save both failed) never rejects parseEmail and never makes onData
\* answer 451: every attachment has its own entry, the failed one is in attachmentInfo
\* with storageType failed and no location, every other one keeps the result of its
\* own uploadToS3 call, and the message is persisted and answered 250.
C22_FailureStaysLocal ==
    /\ parseCall.pc # "rejected"
    /\ parseCall.code # 451
    /\ parseCall.pc \in {"parsed", "accepted"} =>
          LET promises == parseCall.promises
              info == parseCall.parsed.attachmentInfo
              skipped == parseCall.parsed.skippedAttachments
          IN  /\ Len(info) + Len(skipped) = Len(promises)
              /\ \A i \in DOMAIN promises :
                    LET call == uploads[promises[i]] IN
                    /\ call.threw =>
                          /\ KeptUpTo(i) \in DOMAIN info
                          /\ info[KeptUpTo(i)] =
                                [filename |-> call.attachment.filename,
                                 size |-> call.attachment.size,
                                 location |-> NoLocation, storageType |-> "failed"]
                    /\ (~call.threw /\ call.storageType # "skipped") =>
                          /\ KeptUpTo(i) \in DOMAIN info
                          /\ info[KeptUpTo(i)] =
                                [filename |-> call.attachment.filename,
                                 size |-> call.attachment.size,
                                 location |-> call.location,
                                 storageType |-> call.storageType]
    /\ parseCall.pc = "accepted" => parseCall.persisted /\ parseCall.code = 250

\* A message with two attachments is accepted: storing one failed, the other is in S3
\* or in the local directory.
C22_Witness ==
    /\ parseCall.pc = "accepted"
    /\ parseCall.persisted
    /\ Len(parseCall.promises) = 2
    /\ \E i, j \in DOMAIN parseCall.promises :
          /\ uploads[parseCall.promises[i]].threw
          /\ uploads[parseCall.promises[i]].primary = "failed"
          /\ ~uploads[parseCall.promises[j]].threw
          /\ uploads[parseCall.promises[j]].storageType \in {"s3", "local"}
          /\ parseCall.parsed.attachmentInfo[i].storageType = "failed"

\* The items of the retry set that are gone after the step.
Dropped == {i \in DOMAIN retryQueue : ~Has(retryQueue', retryQueue[i].id)}

\* The item was uploaded by a callback of the retry process, which has now removed it.
UploadedBy(k, itemId) == ticks[k].pc = "removing" /\ ticks[k].item.id = itemId

\* C23: with the primary store configured and the upload failed, a successful local
\* save makes uploadToS3 return storageType local, add exactly one item for the file
\* with attempt counter 0 and leave the retry process running; an item leaves the
\* retry set only when it has been uploaded or its counter has reached the cap.
C23_FallbackQueuedUntilDrained ==
    [][ /\ \A call \in UploadIds :
              (/\ uploads[call].pc = "saved"
               /\ uploads[call].primary = "failed"
               /\ uploads'[call].pc = "done") =>
                  /\ isS3Configured
                  /\ uploads'[call].storageType = "local"
                  /\ uploads'[call].location = LocalPath(call)
                  /\ Len(retryQueue') = Len(retryQueue) + 1
                  /\ SubSeq(retryQueue', 1, Len(retryQueue)) = retryQueue
                  /\ LET item == retryQueue'[Len(retryQueue')] IN
                     /\ item.localPath = LocalPath(call)
                     /\ ~Has(retryQueue, item.id)
                     /\ item.id \in DOMAIN retryAttempts'
                     /\ retryAttempts'[item.id] = 0
                  /\ retryInterval' \in DOMAIN intervals'
                  /\ intervals'[retryInterval'] = "active"
        /\ \A i \in Dropped :
              \/ \E k \in TickIds : UploadedBy(k, retryQueue[i].id)
              \/ AttemptsOf(retryAttempts, retryQueue[i].id) >= S3_MAX_RETRIES
      ]_allVars

\* The upload of an attachment failed, the attachment was saved locally and queued, a
\* later upload by the retry process failed as well, and the item is still in the retry
\* set of the running process, now with one attempt counted.
C23_Witness ==
    \E call \in UploadIds :
        /\ uploads[call].pc = "done"
        /\ uploads[call].primary = "failed"
        /\ uploads[call].storageType = "local"
        /\ uploads[call].queued
        /\ Cardinality(ItemsOfCall(call)) = 1
        /\ Tried(LocalPath(call)) = 1
        /\ Uploaded(LocalPath(call)) = 0
        /\ \A i \in ItemsOfCall(call) : AttemptsOf(retryAttempts, retryQueue[i].id) = 1
        /\ retryInterval \in DOMAIN intervals
        /\ intervals[retryInterval] = "active"

\* The files the retry process has tried to upload.
DrainedFiles == DOMAIN drained

\* C24: the retry process tries the upload of one locally stored file at most
\* S3_MAX_RETRIES times while the process runs: when the counter of its item is at the
\* cap the item is dropped, the file stays on disk, and the file is not tried again.
C24_AttemptsCappedPerFile ==
    \A file \in DrainedFiles : Tried(file) <= S3_MAX_RETRIES

\* C25: a file uploaded by the retry process has its data file and its .meta file
\* unlinked and its item removed, so it is never uploaded again; after a failed upload
\* both files are still there and the counter of the item has grown by exactly one.
C25_DrainedOnceOrCounted ==
    [][ /\ \A file \in DOMAIN drained' : Uploaded(file)' <= 1
        /\ \A k \in TickIds :
              (ticks[k].pc = "removing" /\ ticks'[k].pc # "removing") =>
                  /\ ticks[k].item.localPath \notin DOMAIN localFiles'
                  /\ MetaOf(ticks[k].item.localPath) \notin DOMAIN localFiles'
                  /\ ~Has(retryQueue', ticks[k].item.id)
        /\ \A k \in TickIds :
              (/\ ticks[k].pc = "uploading"
               /\ ticks'[k].pc # "uploading" \/ ticks'[k].item # ticks[k].item
               /\ Uploaded(ticks[k].item.localPath)' = Uploaded(ticks[k].item.localPath)) =>
                  /\ localFiles' = localFiles
                  /\ Has(retryQueue, ticks[k].item.id) =>
                        /\ ticks[k].item.id \in DOMAIN retryAttempts'
                        /\ retryAttempts'[ticks[k].item.id]
                              = AttemptsOf(retryAttempts, ticks[k].item.id) + 1
      ]_allVars

\* The data files of the directory that have their .meta file next to them.
Pairs(files) ==
    {file \in DOMAIN files : files[file].kind = "data" /\ MetaOf(file) \in DOMAIN files}

\* The .meta files of the directory whose data file is absent.
Orphans(files) ==
    {file \in DOMAIN files :
        /\ files[file].kind = "meta"
        /\ SubSeq(file, 1, Len(file) - 1) \notin DOMAIN files}

\* getRetryQueue returned `queue` and left `after` of the directory `before`.
ListedExactly(queue, before, after) ==
    /\ {queue[i].filepath : i \in DOMAIN queue} = Pairs(before)
    /\ Len(queue) = Cardinality(Pairs(before))
    /\ DOMAIN after = DOMAIN before \ Orphans(before)

\* C26: when LocalStorage.save returns success the data file and its .meta file both
\* exist; getRetryQueue returns exactly the items that have both files and unlinks
\* every .meta file whose data file is absent, and no other file.
C26_PairsListedOrphansDeleted ==
    [][ /\ \A call \in UploadIds :
              (uploads[call].pc = "writing" /\ uploads'[call].pc = "saved") =>
                  /\ LocalPath(call) \in DOMAIN localFiles'
                  /\ MetaOf(LocalPath(call)) \in DOMAIN localFiles'
        /\ \A k \in TickIds :
              (ticks[k].pc = "listing" /\ ticks'[k].pc = "listed") =>
                  ListedExactly(ticks'[k].persisted, localFiles, localFiles')
        /\ (scan.pc = "listing" /\ scan'.pc = "listed") =>
              /\ scan'.found = Cardinality(Pairs(localFiles))
              /\ DOMAIN localFiles' = DOMAIN localFiles \ Orphans(localFiles)
      ]_allVars

\* The keystream is not zero over the length of the content.
KeyStreamShows(key, iv, content) ==
    \E i \in DOMAIN content : KeyStream(key, iv, i) # 0

\* The tag kept in the meta file is not the tag of the data file.
TagMismatch ==
    /\ vault.metadata.encrypted
    /\ AuthTag(vault.encryptionKey, vault.metadata.encryption.iv, vault.data)
          # vault.metadata.encryption.authTag

\* read(location) of the files as save wrote them returned the original bytes.
ReadsBack ==
    (vault.pc = "read" /\ ~vault.touched) =>
        ~vault.result.threw /\ vault.result.content = vault.original

\* A read whose tag does not match throws and returns no data.
MismatchFails ==
    (vault.pc = "read" /\ TagMismatch) => vault.result = Thrown

\* C27 as stated: read(location) returns the original bytes of every saved attachment,
\* with or without a key; with a key the bytes on disk differ from the original; a
\* read whose auth tag does not match fails.
C27_ReadsBackAndDiskDiffers ==
    /\ ReadsBack
    /\ (vault.pc = "saved" /\ vault.encryptionKey # NoKey /\ ~vault.touched) =>
          vault.data # vault.original
    /\ MismatchFails

\* C27, amended: read(location) returns the original bytes of every saved attachment,
\* with or without a key; with a key the data file holds the AES-GCM ciphertext, as
\* long as the original and different from it exactly when the keystream is not zero
\* somewhere over its length (an empty attachment is stored as an empty file), and the
\* meta file records the iv and the tag; without a key it holds the original bytes; a
\* read whose auth tag does not match fails.
C27_ReadsBackAndDiskIsCiphertext ==
    /\ ReadsBack
    /\ (vault.pc = "saved" /\ ~vault.touched) =>
          IF vault.encryptionKey = NoKey
          THEN vault.data = vault.original /\ ~vault.metadata.encrypted
          ELSE /\ vault.metadata.encrypted
               /\ vault.metadata.encryption.present
               /\ ~TagMismatch
               /\ Len(vault.data) = Len(vault.original)
               /\ vault.data # vault.original
                     <=> KeyStreamShows(vault.encryptionKey, vault.metadata.encryption.iv,
                                        vault.original)
    /\ MismatchFails

\* An attachment saved under a key is on disk with other bytes and was read back.
C27_Witness ==
    /\ vault.pc = "read"
    /\ vault.encryptionKey # NoKey
    /\ ~vault.touched
    /\ vault.original # << >>
    /\ vault.data # vault.original
    /\ vault.result = Returns(vault.original)

\* The sequence is in the order of sort(), without repetition.
InOrder(ids) == \A i, j \in DOMAIN ids : i < j => Precedes(ids[i], ids[j])

\* listIds() returns the ids created and not removed since, in order, whatever order
\* readdir lists the files in.
ListsLiveIds ==
    \A listing \in QueueListings :
        LET ids == QueueListIds(listing) IN
        /\ {ids[i] : i \in DOMAIN ids} = DOMAIN durable.given
        /\ Len(ids) = Cardinality(DOMAIN durable.given)
        /\ InOrder(ids)

\* A remove(id) of an id that has no file succeeded and changed nothing.
RemoveOfAbsentIsNoOp ==
    (/\ durable'.last.op = "remove"
     /\ durable' # durable
     /\ durable'.last.id \notin DOMAIN durable.files) =>
        /\ ~durable'.last.threw
        /\ durable'.files = durable.files
        /\ durable'.given = durable.given

\* C28 as stated: listIds() returns exactly the ids created and not removed since, in
\* lexicographic order; get(id) returns the created payload overlaid with the patches
\* of the updates: every field given has the value given last; remove(id) of an absent
\* id succeeds and changes nothing.
C28_GetReturnsWhatWasGiven ==
    /\ [](/\ ListsLiveIds
          /\ \A id \in DOMAIN durable.given :
                /\ id \in DOMAIN durable.files
                /\ \A f \in DOMAIN durable.given[id] :
                      /\ f \in DOMAIN QueueGet(id)
                      /\ QueueGet(id)[f] = durable.given[id][f])
    /\ [][RemoveOfAbsentIsNoOp]_allVars

\* C28, amended: listIds() returns exactly the ids created and not removed since, in
\* lexicographic order; get(id) returns what JSON keeps of { id, createdAt } overlaid
\* with the created payload and the patches of the updates, with updatedAt once the
\* task has been updated: a field given as undefined is absent and a Date is its ISO
\* string; remove(id) of an absent id succeeds and changes nothing.
C28_GetReturnsJsonOfWhatWasGiven ==
    /\ [](/\ ListsLiveIds
          /\ \A id \in DOMAIN durable.given :
                /\ id \in DOMAIN durable.files
                /\ LET doc == QueueGet(id)
                       given == durable.given[id]
                       stamps == IF id \in durable.patched
                                 THEN {"id", "createdAt", "updatedAt"}
                                 ELSE {"id", "createdAt"}
                   IN  /\ DOMAIN doc =
                             stamps \cup {f \in DOMAIN given : given[f].kind # "undefined"}
                       /\ doc["id"] = Str(id)
                       /\ \A f \in DOMAIN doc \ stamps : doc[f] = toJSON(given[f]))
    /\ [][RemoveOfAbsentIsNoOp]_allVars

\* Two tasks are in the queue, out of the order of their creation: one was created
\* with a Date and updated, and the last call removed an id that had no file.
C28_Witness ==
    /\ durable.last = Call("remove", << "1", "-", "a" >>, FALSE)
    /\ << "1", "-", "a" >> \notin durable.usedIds
    /\ DOMAIN durable.files = { << "2", "-", "a" >>, << "1", "-", "b" >> }
    /\ << "2", "-", "a" >> \in durable.patched
    /\ durable.given[<< "2", "-", "a" >>].date = DateObject(Iso)
    /\ QueueGet(<< "2", "-", "a" >>).date = Str(Iso)
    /\ QueueListIds(<< << "2", "-", "a" >>, << "1", "-", "b" >> >>)
          = << << "1", "-", "b" >>, << "2", "-", "a" >> >>

\* However many events fire, server.close is called once and checkQueue is started
\* once, and only when the listener has closed.
SingleShot ==
    /\ proc.closeCalls <= 1
    /\ proc.polls <= 1
    /\ proc.closeCalls = 1 <=> proc.isShuttingDown
    /\ (proc.polls = 1 \/ proc.checkTimer \/ proc.forceExitTimeout) =>
          proc.listener = "closed"
    /\ proc.exit # NotExited => proc.listener = "closed" /\ proc.polls = 1

\* C29 as stated: graceful shutdown is single-shot, the poll of the pending count
\* starts only after the listener has closed, and the process exits with status 0,
\* when the pending count is zero and when the force-exit timer fires.
C29_SingleShotExitsZero ==
    /\ SingleShot
    /\ proc.exit # NotExited => proc.exit.code = 0
    /\ proc.exit.by = "checkQueue" => proc.total = 0

\* C29, amended: graceful shutdown is single-shot, the poll of the pending count
\* starts only after the listener has closed, and the process exits with status 0
\* when a poll finds the pending count at zero and with status 1 when the force-exit
\* timer fires.
C29_SingleShotExitsZeroOrForcedOne ==
    /\ SingleShot
    /\ proc.exit.by = "checkQueue" => proc.exit.code = 0 /\ proc.total = 0
    /\ proc.exit.by = "forceExitTimeout" => proc.exit.code = 1
    /\ proc.exit # NotExited => proc.exit.by \in {"checkQueue", "forceExitTimeout"}

\* Three events asked for the shutdown, the listener was closed once, and the
\* force-exit timer ended the process with a task still pending.
C29_Witness ==
    /\ proc.events = 3
    /\ proc.last.name = "SIGINT"
    /\ proc.closeCalls = 1
    /\ proc.polls = 1
    /\ proc.total > 0
    /\ proc.exit = [code |-> 1, by |-> "forceExitTimeout"]

\* The code and the message the classification goes by: the properties of an Error;
\* for another object its code and its message, or its JSON text when it has no
\* message; for a string the string.
KnownCode(errorLike) ==
    /\ errorLike.type \in {"Error", "object"}
    /\ errorLike.code.kind = "string"
    /\ \E code \in RECOVERABLE_CODES : errorLike.code.value = << code >>

MessageFor(errorLike) ==
    IF errorLike.type = "string" THEN errorLike.rest
    ELSE IF errorLike.type \notin {"Error", "object"} THEN << errorLike.type >>
    ELSE IF errorLike.message.kind = "string"
            /\ (errorLike.type = "Error" \/ errorLike.message.value # << >>)
    THEN errorLike.message.value
    ELSE JsonText(errorLike)

KnownPattern(errorLike) ==
    \E piece \in {MessageFor(errorLike)[i] : i \in DOMAIN MessageFor(errorLike)} :
        lower(piece) \in {"unknown protocol", "wrong version number", "tlsv1 alert",
                          "read etimedout", "socket hang up",
                          "client network socket disconnected"}

\* The step is the handler of an uncaughtException or an unhandledRejection.
ErrorEvent ==
    /\ proc'.events = proc.events + 1
    /\ proc'.last.name \in {"uncaughtException", "unhandledRejection"}

\* C30: an uncaught exception or unhandled rejection starts the graceful shutdown iff
\* it is not recoverable; it is recoverable iff its code is in the known set or its
\* message matches one of the known patterns, whatever the case of the letters; a
\* recoverable one is ignored: the listener and the shutdown flag stay as they were.
C30_ShutdownIffNotRecoverable ==
    [][ ErrorEvent =>
          LET errorLike == proc'.last.error IN
          IF KnownCode(errorLike) \/ KnownPattern(errorLike)
          THEN /\ proc'.last.ignored
               /\ proc' = [proc EXCEPT !.events = proc'.events, !.last = proc'.last]
          ELSE /\ ~proc'.last.ignored
               /\ proc'.isShuttingDown
               /\ proc'.listener # "listening"
               /\ ~proc.isShuttingDown =>
                     /\ proc'.listener = "closing"
                     /\ proc'.closeCalls = proc.closeCalls + 1
      ]_allVars

\* A rejection whose message matches a pattern in other letters was ignored, after
\* another recoverable error: the server is listening and the shutdown flag is unset.
C30_Witness ==
    /\ proc.events = 2
    /\ proc.last = [name |-> "unhandledRejection", ignored |-> TRUE,
                    error |-> ErrorOf(Str(<< "Socket Hang Up" >>), Undefined)]
    /\ ~proc.isShuttingDown
    /\ proc.listener = "listening"
    /\ proc.closeCalls = 0
    /\ proc.exit = NotExited

\* The attachments of the message parseEmail has returned for, in their order.
AttachmentsOfMessage ==
    [i \in DOMAIN parseCall.promises |-> uploads[parseCall.promises[i]].attachment]

\* How many entries of a list carry the file name and the size of an attachment.
EntriesFor(list, att) ==
    Cardinality({i \in DOMAIN list :
                    list[i].filename = att.filename /\ list[i].size = att.size})

\* The attachments of the message that uploadToS3 answered with "skipped" / otherwise.
SkippedOnes ==
    {i \in DOMAIN parseCall.promises :
        uploads[parseCall.promises[i]].storageType = "skipped"}

\* C31: what parseEmail returns has a storageSummary exactly when the message had at
\* least one attachment, its total is the number of attachments, attachmentInfo has
\* one entry for every attachment that was not skipped and skippedAttachments one for
\* every skipped attachment (same file name and size, no attachment in both), and the
\* two lists together have total entries.
C31_SummaryIffAttachments ==
    parseCall.pc \in {"parsed", "accepted"} =>
        LET parsed == parseCall.parsed
            atts == AttachmentsOfMessage
            KeptOnes == DOMAIN atts \ SkippedOnes
        IN  /\ (parsed.storageSummary # << >>) <=> (Len(atts) > 0)
            /\ parsed.storageSummary # << >> =>
                  /\ parsed.storageSummary[1].total = Len(atts)
                  /\ Len(parsed.attachmentInfo) + Len(parsed.skippedAttachments)
                        = parsed.storageSummary[1].total
            /\ Len(parsed.attachmentInfo) = Cardinality(KeptOnes)
            /\ Len(parsed.skippedAttachments) = Cardinality(SkippedOnes)
            /\ \A i \in DOMAIN atts :
                  /\ EntriesFor(parsed.attachmentInfo, atts[i])
                        = Cardinality({j \in KeptOnes : atts[j] = atts[i]})
                  /\ EntriesFor(parsed.skippedAttachments, atts[i])
                        = Cardinality({j \in SkippedOnes : atts[j] = atts[i]})

\* parseEmail has returned for a message with two attachments, one of them skipped
\* and the other one not.
C31_Witness ==
    /\ parseCall.pc = "parsed"
    /\ Len(parseCall.promises) = 2
    /\ Cardinality(SkippedOnes) = 1
    /\ Len(parseCall.parsed.attachmentInfo) = 1
    /\ Len(parseCall.parsed.skippedAttachments) = 1
    /\ parseCall.parsed.storageSummary[1].total = 2

\* The attachments of the message whose uploadToS3 call rejected.
FailedOnes ==
    {i \in DOMAIN parseCall.promises : uploads[parseCall.promises[i]].threw}

\* C40 as stated: whenever parseEmail produces a storageSummary,
\* total = uploadedToS3 + storedLocally + skipped.
C40_TotalIsSumOfThree ==
    (parseCall.pc \in {"parsed", "accepted"} /\ parseCall.parsed.storageSummary # << >>) =>
        LET summary == parseCall.parsed.storageSummary[1] IN
        summary.total = summary.uploadedToS3 + summary.storedLocally + summary.skipped

\* C40: whenever parseEmail produces a storageSummary, total = uploadedToS3 +
\* storedLocally + skipped + the number of attachments whose storage failed (their
\* entries of attachmentInfo have storageType failed); the three counts add up to
\* total exactly when no attachment failed.
C40_TotalIsSumWithFailed ==
    (parseCall.pc \in {"parsed", "accepted"} /\ parseCall.parsed.storageSummary # << >>) =>
        LET summary == parseCall.parsed.storageSummary[1]
            info == parseCall.parsed.attachmentInfo
            failedEntries == {i \in DOMAIN info : info[i].storageType = "failed"}
        IN  /\ Cardinality(failedEntries) = Cardinality(FailedOnes)
            /\ summary.total = summary.uploadedToS3 + summary.storedLocally
                               + summary.skipped + Cardinality(FailedOnes)

\* A summary of two attachments: one is stored, storing the other one failed.
C40_Witness ==
    /\ parseCall.pc = "parsed"
    /\ parseCall.parsed.storageSummary # << >>
    /\ parseCall.parsed.storageSummary[1].total = 2
    /\ Cardinality(FailedOnes) = 1
    /\ parseCall.parsed.storageSummary[1].uploadedToS3
          + parseCall.parsed.storageSummary[1].storedLocally = 1

\* C32: at every moment at most WEBHOOK_CONCURRENCY work items are with a worker, from
\* the start of the worker for the item to its acknowledgement.
C32_AtMostConcurrencyProcessing ==
    Len(pool.running) <= PoolConcurrency

\* WEBHOOK_CONCURRENCY Tasks are being processed and another work item waits.
C32_Witness ==
    /\ Len(pool.running) = PoolConcurrency
    /\ \A i \in DOMAIN pool.running : pool.running[i].pc = "sending"
    /\ pool.queue # << >>

\* Every worker of the pool holds a Task that waits in the backoff delay between two
\* attempts, and a work item is queued.
AllInBackoff ==
    /\ pool.phase # "booting"
    /\ Len(pool.running) = PoolConcurrency
    /\ \A i \in DOMAIN pool.running : pool.running[i].pc = "backoff"
    /\ pool.queue # << >>

\* C33: a Task waiting in the backoff delay between two in-worker attempts does not
\* occupy a worker slot: with WEBHOOK_CONCURRENCY Tasks all in backoff, a queued work
\* item can be started before any of the backoff timers fires.
C33_BackoffHoldsNoSlot ==
    AllInBackoff => ENABLED PoolStart

\* The live dispatcher entries of a task id: work items waiting, worker invocations
\* not yet acknowledged, and armed deferred re-enqueue timers.
LiveEntries(id) ==
    Cardinality({k \in DOMAIN pool.queue : pool.queue[k].taskId = id})
    + Cardinality({i \in DOMAIN pool.running : pool.running[i].taskId = id})
    + Cardinality({k \in DOMAIN pool.timers : pool.timers[k] = id})

\* C34: within one process lifetime each task id has at most one live dispatcher
\* entry (waiting in the queue, with a worker, or in a deferred re-enqueue timer), so
\* no two workers hold the same Task at the same time.
C34_OneLiveEntryPerTask ==
    /\ \A id \in PoolIds : LiveEntries(id) <= 1
    /\ \A i, j \in DOMAIN pool.running :
          pool.running[i].taskId = pool.running[j].taskId => i = j

\* Two workers hold two different Tasks while a third Task waits in its deferred
\* re-enqueue timer after an exhausted cycle.
C34_Witness ==
    /\ Len(pool.running) = 2
    /\ pool.running[1].taskId # pool.running[2].taskId
    /\ pool.timers # << >>
    /\ \A id \in PoolIds : LiveEntries(id) = 1

\* C37: the total of the dispatcher's in-memory queue never exceeds MAX_QUEUE_SIZE,
\* whatever the interleaving of the sessions in DATA, the startup replay and the
\* deferred re-enqueue timers.
C37_TotalWithinMaxQueueSize ==
    PoolTotal <= MAX_QUEUE_SIZE

\* The work items a step hands to a worker (0 or 1).
StartedInStep == IF Len(pool'.queue) < Len(pool.queue) THEN 1 ELSE 0

\* The worker invocations that are no longer in the pool after a step.
LeftInStep == Len(pool.running) + StartedInStep - Len(pool'.running)

\* C38: every invocation of the worker function calls cb exactly once on every path it
\* can take (the Task is not found, it cannot be loaded, it is delivered and removed,
\* its retries are exhausted; no push of this program is without a task id, so the
\* path of the missing id is never taken): an invocation that has returned has been
\* acknowledged, a step acknowledges at most once and exactly the invocation that
\* leaves the pool, and total is zero once nothing waits and every invocation has
\* returned.
C38_AckExactlyOnce ==
    /\ [](/\ \A i \in DOMAIN pool.running :
                pool.running[i].pc # "returned" /\ pool.running[i].acks = 0
          /\ pool.last.cb <= 1
          /\ (pool.queue = << >> /\ \A i \in DOMAIN pool.running :
                                       pool.running[i].pc = "returned")
                => PoolTotal = 0)
    /\ [][pool' # pool => pool'.last.cb = LeftInStep]_allVars

\* The cycle of a Task is exhausted: cb(null, { queuedForRetry: true }) has just been
\* called, the timer is armed and total is back at zero.
C38_Witness ==
    /\ pool.last.cb = 1
    /\ pool.timers # << >>
    /\ PoolTotal = 0

\* C39: a message rejected at DATA, for whatever reason, leaves the durable queue and
\* the in-memory queue of the dispatcher as they were: no task file is created and no
\* id is pushed.
C39_RejectChangesNoQueue ==
    [][pool'.last.reply \in {451, 550} =>
          /\ pool'.files = pool.files
          /\ pool'.queue = pool.queue]_allVars

\* The interval timers of the retry process that are armed and not cleared.
ActiveIntervals == {timer \in DOMAIN intervals : intervals[timer] = "active"}

\* The retry process runs: retryInterval holds the handle of an armed timer.
LoopRunning == retryInterval # 0 /\ retryInterval \in ActiveIntervals

\* A step in which the retry process stops itself.
LoopStops == retryInterval # 0 /\ retryInterval' = 0

\* A callback of the timer found the retry set empty, asked localStorage for the
\* persisted files and got none.
FoundNothing(k) == ticks[k].pc = "listed" /\ ticks[k].persisted = << >>

\* The local save of an attachment whose primary upload had failed returns.
FallbackSaved(call) ==
    /\ uploads[call].pc = "saved" /\ uploads[call].primary = "failed"
    /\ uploads'[call].pc = "done"

\* C35: the retry process stops itself exactly at a tick that found the retry set
\* empty and no persisted file; the next primary-upload failure that is saved locally
\* leaves it running; and while the retry set is non-empty the process is running.
C35_StopsWhenEmptyStartsOnDemand ==
    /\ [](retryQueue # << >> => LoopRunning)
    /\ [][/\ LoopStops => \E k \in TickIds : FoundNothing(k) /\ ticks'[k].pc = "returned"
          /\ \A k \in TickIds :
                (FoundNothing(k) /\ ticks'[k].pc = "returned") => retryInterval' = 0
          /\ \A call \in UploadIds : FallbackSaved(call) => LoopRunning'
         ]_allVars

\* C36: at most one interval timer of the retry process is armed at any time,
\* whatever the interleaving of the startup scan, the fallbacks of uploadToS3 and the
\* stop of the process by its own callback.
C36_AtMostOneInterval ==
    Cardinality(ActiveIntervals) <= 1

====
